---------------------------- MODULE Spec2Model ----------------------------
(***************************************************************************)
(* A model of cerberussg/tagger: the multi-provider enrichment             *)
(* orchestrator (pkg/enricher/enricher.go) and the rate-limited            *)
(* MusicBrainz adapter (pkg/enricher/musicbrainz/musicbrainz.go).          *)
(*                                                                         *)
(* Conventions.                                                            *)
(*  - A Go error value is a sequence of strings: the chain of messages     *)
(*    that fmt.Errorf("...: %w", err) builds, outermost first, ending in   *)
(*    the root error.  The nil error is the empty sequence.                *)
(*  - A *TrackMetadata is a sequence of length 0 (nil) or 1 (the record).  *)
(*  - The confidence of a provider's record and MinConfidence are counted   *)
(*    in tenths (7 stands for 0.7); CalculateConfidence computes in        *)
(*    float64, bit by bit.                                                 *)
(*  - A provider is named by the ordinal of its registration: the k-th     *)
(*    provider handed to NewEnricher/AddProvider is provider k.            *)
(***************************************************************************)
EXTENDS Integers, Sequences, FiniteSets, TLC

\* ------------------------------------------------------------------ bounds

\* The largest number of providers one enricher registers.
MaxProviders == 2

\* ------------------------------------------------------------------ errors

NoErr == <<>>

ErrNotFound == <<"no metadata found">>

ErrNoProvider == <<"no providers available">>

ErrAPIError == <<"API error">>

\* errors.Is(err, target): target is err or one of the errors err wraps.
errorsIs(err, target) ==
    \E i \in 1..Len(err) : SubSeq(err, i, Len(err)) = target

\* context.Canceled and context.DeadlineExceeded
Canceled == <<"context canceled">>

DeadlineExceeded == <<"context deadline exceeded">>

\* fmt.Errorf(msg + ": %w", err)
Wrap(msg, err) == <<msg>> \o err

\* A nil *TrackMetadata.
NilResult == <<>>


\* --------------------------------------------------------------- data model

\* The strategies of the configuration; "unknown" stands for any
\* ProviderStrategy value that is none of the three constants.
Strategies == {"first", "best", "fallback", "unknown"}

\* EnricherConfig.MinConfidence, in tenths.
MinConfidences == {7, 8}

\* (Confidence, Label) of the records a provider may produce.
ResultShapes == {<<7, "">>, <<7, "Good Looking">>, <<9, "">>, <<9, "Good Looking">>}

\* The errors a provider's LookupWithHints may return.
ProviderErrors ==
    { ErrNotFound,
      Canceled,
      Wrap("musicbrainz recording search failed",
           Wrap("http request failed", Wrap("Get", DeadlineExceeded))) }

\* What one call of provider p returns: (nil, err), (nil, nil) or (result, nil).
Responses(p) ==
    {[result |-> NilResult, err |-> e] : e \in ProviderErrors}
    \cup {[result |-> NilResult, err |-> NoErr]}
    \cup {[result |-> <<[Confidence |-> s[1], Label |-> s[2], ProviderName |-> p]>>,
           err |-> NoErr] : s \in ResultShapes}

\* The request Lookup builds.
LookupRequest(artist, title) ==
    [Artist |-> artist, Title |-> title, Album |-> "", Genre |-> "", Year |-> "",
     Duration |-> 0, PreferOriginalRelease |-> TRUE, MaxResults |-> 5]

\* Requests a caller hands to LookupWithRequest.
CallerRequests ==
    { [Artist |-> "LTJ Bukem", Title |-> "Horizons", Album |-> "Logical Progression",
       Genre |-> "dnb", Year |-> "1996", Duration |-> 300,
       PreferOriginalRelease |-> FALSE, MaxResults |-> 3],
      [Artist |-> "Goldie", Title |-> "Inner City Life", Album |-> "Timeless",
       Genre |-> "", Year |-> "", Duration |-> 0,
       PreferOriginalRelease |-> TRUE, MaxResults |-> 0] }

\* The request before any call: no request object exists.
NoRequest == LookupRequest("", "")

\* -------------------------------------------------------------------- state

VARIABLES
    providers,    \* Enricher.providers: the registered providers, in slice order
    config,       \* Enricher.config
    pc,           \* position of the lookup: idle, first, best, done
    entry,        \* the exported method the caller entered by
    req,          \* the caller's SearchRequest object, as it is now
    req0,         \* the caller's SearchRequest as it was when the call was made
    curReq,       \* the request the running lookupFirst/lookupBest was given
    pass,         \* which invocation of lookupFirst/lookupBest is running
    idx,          \* loop position in e.providers
    lastErr,      \* the loop's lastErr
    bestResult,   \* lookupBest's bestResult
    calls,        \* the provider calls made by the current lookup, in order
    outcome       \* what the lookup returned: [result, err]

evars == <<providers, config, pc, entry, req, req0, curReq, pass, idx, lastErr,
           bestResult, calls, outcome>>

\* The state of one MusicBrainzProvider, of the clock and of the one
\* LookupWithHints call in progress on it.
VARIABLES
    now,          \* the clock, in ticks of half a second
    lastRequest,  \* MusicBrainzProvider.lastRequest
    ctx,          \* the call's context: live, canceled or expired
    ctx0,         \* the context as it was when the call was made
    mpc,          \* position of the call in LookupWithHints
    waitUntil,    \* when the timer of the pending time.After fires
    hints,        \* the SearchRequest the call was given
    recording,    \* bestRecording, once chosen
    requests,     \* the HTTP requests the call has sent, in order
    prevRequest,  \* the value lastRequest had before it was last set
    mout          \* what LookupWithHints returned: [result, err]

mvars == <<now, lastRequest, ctx, ctx0, mpc, waitUntil, hints, recording, requests,
           prevRequest, mout>>

\* One call of a function that reads and writes no state of an enricher or a
\* provider: the arguments it is called with and what it returned.
VARIABLES
    fin,          \* the function called and its arguments
    fout          \* <<>> before the call returns, then <<the value returned>>

fvars == <<fin, fout>>

\* Two goroutines that call waitForRateLimit on one MusicBrainzProvider with
\* nothing to serialise them: they share lastRequest and the clock.
VARIABLES
    tpc,          \* position of each goroutine in waitForRateLimit
    seen,         \* the value each goroutine read from m.lastRequest
    stamp,        \* the time.Now() each goroutine is about to store
    released      \* the last request each goroutine sent after a granted wait

tvars == <<tpc, seen, stamp, released>>

\* One run of the batch command over the files it found.
VARIABLES
    files,        \* the audio files found, in the order they are processed
    enrichData,   \* whether an enricher was made (metadataEnricher != nil)
    processed,    \* how many files the loop has processed
    counts,       \* the five counters of runBatch
    edgeCases,    \* the edgeCases map: tag -> the files recorded under it
    returned      \* what processFileWithEdgeCase returned for each file

bvars == <<files, enrichData, processed, counts, edgeCases, returned>>

vars == <<evars, mvars, fvars, tvars, bvars>>

\* No such call is made.
NoCall == [fn |-> "none"]

NoOutcome == [result |-> NilResult, err |-> NoErr]

\* rateLimit = time.Second, in ticks.
rateLimit == 2

\* The clock stops at MaxTime.
MaxTime == 5

\* The zero time.Time of a provider that has made no request: it lies further
\* back than any duration the clock can measure.
ZeroTime == 0 - (MaxTime + rateLimit + 1)

\* A MusicBrainzProvider as NewMusicBrainzProvider returns it, no call on it.
NewMusicBrainzProvider ==
    /\ lastRequest = ZeroTime
    /\ ctx = "live"
    /\ ctx0 = "live"
    /\ mpc = "idle"
    /\ waitUntil = 0
    /\ hints = NoRequest
    /\ recording = 0
    /\ requests = <<>>
    /\ prevRequest = ZeroTime
    /\ mout = NoOutcome

\* The goroutines of the shared provider.
Threads == 1..2

\* No goroutine has called waitForRateLimit.
NoThreads ==
    /\ tpc = [t \in Threads |-> "idle"]
    /\ seen = [t \in Threads |-> ZeroTime]
    /\ stamp = [t \in Threads |-> ZeroTime]
    /\ released = [t \in Threads |-> <<>>]

\* The edge-case tags of the filename decomposer, "" for none.
EdgeCaseTags == {"", "no_hyphens", "three_hyphens", "many_hyphens"}

Statuses == {"needs_enrichment", "has_label", "error", "enriched", "enrichment_failed"}

\* The batch command is not running.
NoBatch ==
    /\ files = <<>>
    /\ enrichData = FALSE
    /\ processed = 0
    /\ counts = [s \in Statuses |-> 0]
    /\ edgeCases = [t \in EdgeCaseTags \ {""} |-> <<>>]
    /\ returned = <<>>

\* NewEnricher(providers, config): any list of at most MaxProviders providers,
\* any configuration.
InitEnricher ==
    /\ providers \in {[i \in 1..n |-> i] : n \in 0..MaxProviders}
    /\ config \in [Strategy : Strategies, MinConfidence : MinConfidences,
                   RequireLabel : BOOLEAN]
    /\ pc = "idle"
    /\ entry = "none"
    /\ req = NoRequest
    /\ req0 = NoRequest
    /\ curReq = NoRequest
    /\ pass = 0
    /\ idx = 0
    /\ lastErr = NoErr
    /\ bestResult = NilResult
    /\ calls = <<>>
    /\ outcome = NoOutcome
    /\ now = 0
    /\ NewMusicBrainzProvider
    /\ fin = NoCall
    /\ fout = <<>>
    /\ NoThreads
    /\ NoBatch

\* ------------------------------------------------------- Enricher: helpers

\* The quality gate of lookupFirst and lookupBest: result != nil, confidence
\* at least MinConfidence, and a label when RequireLabel is set.
Qualifies_IgnoreLabel(result) ==
    /\ result # NilResult
    /\ result[1].Confidence >= config.MinConfidence

Qualifies(result) ==
    /\ result # NilResult
    /\ result[1].Confidence >= config.MinConfidence
    /\ (~config.RequireLabel \/ result[1].Label # "")

\* lookupBest's replacement test: bestResult == nil or strictly more confident.
BetterThan_OrEqual(result, best) ==
    best = NilResult \/ result[1].Confidence >= best[1].Confidence

BetterThan(result, best) ==
    best = NilResult \/ result[1].Confidence > best[1].Confidence

\* The tail of lookupFirst, after the loop: lastErr if set, else ErrNotFound.
lookupFirstExhausted_DropErr(err) == ErrNotFound

lookupFirstExhausted(err) == IF err # NoErr THEN err ELSE ErrNotFound

\* The tail of lookupBest when bestResult is nil.
lookupBestExhausted(err) == IF err # NoErr THEN err ELSE ErrNotFound

\* lookupFallback's simplifiedReq: a new request with four fields copied.
simplifiedReq_KeepYear(r) ==
    [r EXCEPT !.Album = "", !.Genre = "", !.Duration = 0]

simplifiedReq(r) ==
    [Artist |-> r.Artist, Title |-> r.Title, Album |-> "", Genre |-> "", Year |-> "",
     Duration |-> 0, PreferOriginalRelease |-> r.PreferOriginalRelease,
     MaxResults |-> r.MaxResults]

\* One entry of the call log.
Call(p, r, n, resp) == [provider |-> p, req |-> r, pass |-> n, resp |-> resp]

\* ------------------------------------------------------- Enricher: actions

\* AddProvider: append to e.providers.  The new provider is the next one
\* registered, so its name is the next ordinal.
AddProvider_Prepend ==
    /\ pc = "idle"
    /\ Len(providers) < MaxProviders
    /\ providers' = <<Len(providers) + 1>> \o providers
    /\ UNCHANGED <<tvars, bvars, fvars, mvars, config, pc, entry, req, req0, curReq, pass, idx, lastErr,
                   bestResult, calls, outcome>>

AddProvider ==
    /\ pc = "idle"
    /\ Len(providers) < MaxProviders
    /\ providers' = Append(providers, Len(providers) + 1)
    /\ UNCHANGED <<tvars, bvars, fvars, mvars, config, pc, entry, req, req0, curReq, pass, idx, lastErr,
                   bestResult, calls, outcome>>

\* LookupWithRequest's switch: enter lookupFirst (also for lookupFallback's
\* first pass and for the default branch) or lookupBest with the caller's
\* request.  The context wrapped with RequestTimeout is only handed on to the
\* providers; what they make of it shows in their responses.
Dispatch(r) ==
    /\ req' = r
    /\ req0' = r
    /\ curReq' = r
    /\ pass' = 1
    /\ idx' = 1
    /\ lastErr' = NoErr
    /\ bestResult' = NilResult
    /\ calls' = <<>>
    /\ outcome' = NoOutcome
    /\ pc' = IF config.Strategy = "best" THEN "best" ELSE "first"

LookupWithRequest(r) ==
    /\ pc = "idle"
    /\ entry' = "LookupWithRequest"
    /\ Dispatch(r)
    /\ UNCHANGED <<tvars, bvars, fvars, mvars, providers, config>>

Lookup_NoGuard(artist, title) ==
    /\ pc = "idle"
    /\ entry' = "Lookup"
    /\ Dispatch(LookupRequest(artist, title))
    /\ UNCHANGED <<tvars, bvars, fvars, mvars, providers, config>>

Lookup(artist, title) ==
    /\ pc = "idle"
    /\ entry' = "Lookup"
    /\ IF Len(providers) = 0
       THEN /\ pc' = "done"
            /\ outcome' = [result |-> NilResult, err |-> ErrNoProvider]
            /\ calls' = <<>>
            /\ UNCHANGED <<req, req0, curReq, pass, idx, lastErr, bestResult>>
       ELSE Dispatch(LookupRequest(artist, title))
    /\ UNCHANGED <<tvars, bvars, fvars, mvars, providers, config>>

\* lookupFirst returns (res, err) to its caller: to LookupWithRequest's caller,
\* or to lookupFallback, which returns a result and otherwise enters
\* lookupFirst again with simplifiedReq.
lookupFirstReturns_AlwaysRetry(res, err) ==
    IF pass = 1 /\ ~(err = NoErr /\ res # NilResult)
    THEN /\ pc' = "first"
         /\ curReq' = simplifiedReq(req)
         /\ pass' = 2
         /\ idx' = 1
         /\ lastErr' = NoErr
         /\ outcome' = outcome
    ELSE /\ pc' = "done"
         /\ outcome' = [result |-> res, err |-> err]
         /\ UNCHANGED <<curReq, pass, idx, lastErr>>

lookupFirstReturns(res, err) ==
    IF config.Strategy = "fallback" /\ pass = 1 /\ ~(err = NoErr /\ res # NilResult)
    THEN /\ pc' = "first"
         /\ curReq' = simplifiedReq(req)
         /\ pass' = 2
         /\ idx' = 1
         /\ lastErr' = NoErr
         /\ outcome' = outcome
    ELSE /\ pc' = "done"
         /\ outcome' = [result |-> res, err |-> err]
         /\ UNCHANGED <<curReq, pass, idx, lastErr>>

\* lookupFirst's loop that gives up when a provider reports that the context
\* is done.
lookupFirstStep_StopOnDone ==
    /\ pc = "first"
    /\ idx <= Len(providers)
    /\ \E resp \in Responses(providers[idx]) :
          /\ calls' = Append(calls, Call(providers[idx], curReq, pass, resp))
          /\ IF errorsIs(resp.err, Canceled) \/ errorsIs(resp.err, DeadlineExceeded)
             THEN /\ pc' = "done"
                  /\ outcome' = [result |-> NilResult, err |-> resp.err]
                  /\ UNCHANGED <<curReq, pass, idx, lastErr>>
             ELSE IF resp.err # NoErr
             THEN /\ lastErr' = resp.err
                  /\ idx' = idx + 1
                  /\ UNCHANGED <<pc, curReq, pass, outcome>>
             ELSE IF Qualifies(resp.result)
                  THEN lookupFirstReturns(resp.result, NoErr)
                  ELSE /\ idx' = idx + 1
                       /\ UNCHANGED <<pc, curReq, pass, lastErr, outcome>>
    /\ UNCHANGED <<tvars, bvars, fvars, mvars, providers, config, entry, req, req0, bestResult>>

\* One iteration of lookupFirst's loop: call the provider, remember its
\* error, or return its result when it passes the gate.
lookupFirstStep ==
    /\ pc = "first"
    /\ idx <= Len(providers)
    /\ \E resp \in Responses(providers[idx]) :
          /\ calls' = Append(calls, Call(providers[idx], curReq, pass, resp))
          /\ IF resp.err # NoErr
             THEN /\ lastErr' = resp.err
                  /\ idx' = idx + 1
                  /\ UNCHANGED <<pc, curReq, pass, outcome>>
             ELSE IF Qualifies(resp.result)
                  THEN lookupFirstReturns(resp.result, NoErr)
                  ELSE /\ idx' = idx + 1
                       /\ UNCHANGED <<pc, curReq, pass, lastErr, outcome>>
    /\ UNCHANGED <<tvars, bvars, fvars, mvars, providers, config, entry, req, req0, bestResult>>

\* lookupFirst's loop is over: return lastErr or ErrNotFound.
lookupFirstExit ==
    /\ pc = "first"
    /\ idx > Len(providers)
    /\ lookupFirstReturns(NilResult, lookupFirstExhausted(lastErr))
    /\ UNCHANGED <<tvars, bvars, fvars, mvars, providers, config, entry, req, req0, bestResult, calls>>

\* One iteration of lookupBest's loop.
lookupBestStep ==
    /\ pc = "best"
    /\ idx <= Len(providers)
    /\ \E resp \in Responses(providers[idx]) :
          /\ calls' = Append(calls, Call(providers[idx], curReq, pass, resp))
          /\ idx' = idx + 1
          /\ IF resp.err # NoErr
             THEN /\ lastErr' = resp.err
                  /\ UNCHANGED bestResult
             ELSE /\ bestResult' = IF Qualifies(resp.result)
                                      /\ BetterThan(resp.result, bestResult)
                                   THEN resp.result
                                   ELSE bestResult
                  /\ UNCHANGED lastErr
    /\ UNCHANGED <<tvars, bvars, fvars, mvars, providers, config, pc, entry, req, req0, curReq, pass, outcome>>

\* lookupBest's loop is over: bestResult, else lastErr, else ErrNotFound.
lookupBestExit ==
    /\ pc = "best"
    /\ idx > Len(providers)
    /\ pc' = "done"
    /\ outcome' = IF bestResult # NilResult
                  THEN [result |-> bestResult, err |-> NoErr]
                  ELSE [result |-> NilResult, err |-> lookupBestExhausted(lastErr)]
    /\ UNCHANGED <<tvars, bvars, fvars, mvars, providers, config, entry, req, req0, curReq, pass, idx, lastErr,
                   bestResult, calls>>

\* The caller has its answer; the enricher is free for the next call.
Return ==
    /\ pc = "done"
    /\ pc' = "idle"
    /\ entry' = "none"
    /\ req' = NoRequest
    /\ req0' = NoRequest
    /\ curReq' = NoRequest
    /\ pass' = 0
    /\ idx' = 0
    /\ lastErr' = NoErr
    /\ bestResult' = NilResult
    /\ calls' = <<>>
    /\ outcome' = NoOutcome
    /\ UNCHANGED <<tvars, bvars, fvars, mvars, providers, config>>

\* The (artist, title) pairs Lookup is called with.
Tracks == {<<"LTJ Bukem", "Music">>}

NextEnricher ==
    \/ AddProvider
    \/ \E t \in Tracks : Lookup(t[1], t[2])
    \/ \E r \in CallerRequests : LookupWithRequest(r)
    \/ lookupFirstStep
    \/ lookupFirstExit
    \/ lookupBestStep
    \/ lookupBestExit
    \/ Return

SpecEnricher == InitEnricher /\ [][NextEnricher]_vars

\* A lookup in progress keeps running: the goroutine is scheduled, and every
\* provider call it makes returns.
LookupRuns == lookupFirstStep \/ lookupFirstExit \/ lookupBestStep \/ lookupBestExit

SpecEnricherLive == SpecEnricher /\ WF_vars(LookupRuns)

\* ------------------------------------------------------ Enricher: claims

\* The lookup has returned after entering a strategy (everything but Lookup's
\* early return on an empty registry).
RanStrategy == pc = "done" /\ ~(entry = "Lookup" /\ Len(providers) = 0)

FirstLike == config.Strategy \in {"first", "unknown"}

\* The gate as the specification words it, stated on a record m.
PassesGate(m) ==
    /\ m.Confidence >= config.MinConfidence
    /\ (config.RequireLabel => m.Label # "")

\* Call k of the log returned a record that passes the gate.
CallPasses(k) ==
    /\ calls[k].resp.err = NoErr
    /\ calls[k].resp.result # NilResult
    /\ PassesGate(calls[k].resp.result[1])

CallErred(k) == calls[k].resp.err # NoErr

ErredCalls == {k \in 1..Len(calls) : CallErred(k)}

\* The error of the last call of the log that returned one.
LastCallErr == calls[CHOOSE k \in ErredCalls : \A j \in ErredCalls : j <= k].resp.err

PassCalls(n) == {k \in 1..Len(calls) : calls[k].pass = n}

\* C1: Lookup on an enricher with no registered provider returns
\* ErrNoProvider and no result, under every strategy, and calls no provider.
C1_LookupNoProvider ==
    (pc = "done" /\ entry = "Lookup" /\ Len(providers) = 0)
        => /\ outcome = [result |-> NilResult, err |-> ErrNoProvider]
           /\ calls = <<>>

C1_Witness ==
    /\ pc = "done"
    /\ entry = "Lookup"
    /\ Len(providers) = 0
    /\ config.Strategy = "fallback"

\* C2: LookupWithRequest on an enricher with no registered provider returns
\* ErrNoProvider (not ErrNotFound), under every strategy.
C2_LookupWithRequestNoProvider ==
    (pc = "done" /\ entry = "LookupWithRequest" /\ Len(providers) = 0)
        => outcome.err = ErrNoProvider

\* C3: under every strategy, a record returned by Lookup or LookupWithRequest
\* has confidence >= MinConfidence and, when RequireLabel is set, a label.
C3_QualityGate ==
    (pc = "done" /\ outcome.result # NilResult)
        => /\ outcome.err = NoErr
           /\ PassesGate(outcome.result[1])

C3_Witness ==
    /\ pc = "done"
    /\ config.Strategy = "unknown"
    /\ config.RequireLabel
    /\ outcome.result # NilResult
    /\ \E k \in 1..Len(calls) :
          /\ calls[k].resp.result # NilResult
          /\ ~PassesGate(calls[k].resp.result[1])

\* C4: under First the providers are called one after the other in
\* registration order; the record returned is that of the first provider
\* whose record passes the gate, whatever the earlier ones returned, and no
\* provider after it is called.
C4_FirstInOrder ==
    (RanStrategy /\ FirstLike)
        => /\ Len(calls) <= Len(providers)
           /\ \A k \in 1..Len(calls) : calls[k].provider = k
           /\ \A k \in 1..(Len(calls) - 1) : ~CallPasses(k)
           /\ IF Len(calls) > 0 /\ CallPasses(Len(calls))
              THEN outcome = [result |-> calls[Len(calls)].resp.result, err |-> NoErr]
              ELSE /\ Len(calls) = Len(providers)
                   /\ outcome.result = NilResult

C4_Witness ==
    /\ RanStrategy
    /\ config.Strategy = "first"
    /\ Len(calls) = 2
    /\ CallErred(1)
    /\ outcome.result # NilResult

\* The calls whose record passes the gate, and those of them with the
\* greatest confidence.
PassingCalls == {k \in 1..Len(calls) : CallPasses(k)}

MostConfident ==
    {k \in PassingCalls :
        \A j \in PassingCalls :
            calls[j].resp.result[1].Confidence <= calls[k].resp.result[1].Confidence}

\* C5: under Best every registered provider is called exactly once, in order,
\* and the record returned is the first of the passing records of greatest
\* confidence.
C5_BestOfAll ==
    (RanStrategy /\ config.Strategy = "best")
        => /\ Len(calls) = Len(providers)
           /\ \A k \in 1..Len(calls) : calls[k].provider = k
           /\ PassingCalls # {}
                => \E k \in MostConfident :
                      /\ \A j \in MostConfident : k <= j
                      /\ outcome = [result |-> calls[k].resp.result, err |-> NoErr]

C5_Witness ==
    /\ RanStrategy
    /\ config.Strategy = "best"
    /\ Cardinality(MostConfident) >= 2
    /\ outcome.result # NilResult

\* C6: under Fallback a second First pass runs exactly when the first pass
\* returned no record; it is given a request with the original's artist,
\* title, preferOriginalRelease and maxResults and with album, genre, year and
\* duration empty; the caller's request is not modified.
C6_FallbackSecondPass ==
    (RanStrategy /\ config.Strategy = "fallback")
        => /\ pass \in {1, 2}
           /\ (pass = 2) <=> (\A k \in PassCalls(1) : ~CallPasses(k))
           /\ PassCalls(1) \cup PassCalls(2) = 1..Len(calls)
           /\ \A k \in PassCalls(1) : calls[k].req = req0
           /\ \A k \in PassCalls(2) :
                 /\ calls[k].req.Artist = req0.Artist
                 /\ calls[k].req.Title = req0.Title
                 /\ calls[k].req.PreferOriginalRelease = req0.PreferOriginalRelease
                 /\ calls[k].req.MaxResults = req0.MaxResults
                 /\ calls[k].req.Album = ""
                 /\ calls[k].req.Genre = ""
                 /\ calls[k].req.Year = ""
                 /\ calls[k].req.Duration = 0
           /\ req = req0

C6_Witness ==
    /\ RanStrategy
    /\ config.Strategy = "fallback"
    /\ PassCalls(2) # {}
    /\ req0.Album # ""
    /\ req0.Year # ""
    /\ outcome.result # NilResult

\* C7 as claimed: under First and Best a lookup without a passing record
\* returns the last provider error if a provider erred, and returns
\* ErrNotFound only if no provider returned an error.
C7_Claimed ==
    (RanStrategy /\ (FirstLike \/ config.Strategy = "best") /\ outcome.result = NilResult)
        => /\ ErredCalls # {} => outcome.err = LastCallErr
           /\ outcome.err = ErrNotFound => ErredCalls = {}

\* C7 as amended: such a lookup returns the error of the last provider that
\* returned one, which may itself be ErrNotFound, and returns ErrNotFound of
\* its own when no provider returned an error.
C7_LastErrorOrNotFound ==
    (RanStrategy /\ (FirstLike \/ config.Strategy = "best") /\ outcome.result = NilResult)
        => /\ ErredCalls # {} => outcome.err = LastCallErr
           /\ ErredCalls = {} => outcome.err = ErrNotFound

C7_Witness ==
    /\ RanStrategy
    /\ config.Strategy = "first"
    /\ outcome.result = NilResult
    /\ Cardinality(ErredCalls) = 2
    /\ calls[1].resp.err # calls[2].resp.err
    /\ outcome.err = calls[2].resp.err
    /\ outcome.err # ErrNotFound

\* C8: under Fallback a failed lookup returns the last error any provider
\* call of either pass returned, when there was one.
C8_FallbackLastError ==
    (RanStrategy /\ config.Strategy = "fallback" /\ outcome.result = NilResult)
        => (ErredCalls # {} => outcome.err = LastCallErr)

\* C23: every SearchRequest the Enricher hands to a provider has MaxResults
\* of at least 1, whether Lookup built it, the caller supplied it to
\* LookupWithRequest, or lookupFallback built it as its reduced request.
C23_MaxResultsPositive ==
    \A k \in 1..Len(calls) : calls[k].req.MaxResults >= 1

\* The calls of the log made to provider p, and those of them in pass n.
CallsOf(p) == {k \in 1..Len(calls) : calls[k].provider = p}

Registered == {providers[i] : i \in 1..Len(providers)}

\* The bounds of C26 on the calls of one lookup, with N = Len(providers).
CallBounds ==
    /\ Len(calls) <= 2 * Len(providers)
    /\ \A k \in 1..Len(calls) : calls[k].provider \in Registered
    /\ config.Strategy # "fallback"
          => \A p \in Registered : Cardinality(CallsOf(p)) <= 1
    /\ config.Strategy = "fallback"
          => \A p \in Registered :
                /\ Cardinality(CallsOf(p)) <= 2
                /\ \A n \in 1..2 : Cardinality(CallsOf(p) \cap PassCalls(n)) <= 1
    /\ (RanStrategy /\ config.Strategy = "best")
          => \A p \in Registered : Cardinality(CallsOf(p)) = 1

\* C26: every Lookup and LookupWithRequest terminates, given that each
\* provider call returns; with N registered providers it calls each provider
\* at most once under First, exactly once under Best and at most twice under
\* Fallback, and never makes more than 2N provider calls.
C26_TerminatesWithinBounds ==
    /\ []CallBounds
    /\ (pc \in {"first", "best"}) ~> (pc = "done")

\* A Fallback lookup over two providers that has ended after calling each of
\* them twice.
C26_Witness ==
    /\ RanStrategy
    /\ config.Strategy = "fallback"
    /\ Len(providers) = 2
    /\ Len(calls) = 4

\* The calls of the log that returned a cancellation or deadline error.
DoneCalls ==
    {k \in 1..Len(calls) :
        errorsIs(calls[k].resp.err, Canceled)
            \/ errorsIs(calls[k].resp.err, DeadlineExceeded)}

\* C28: a cancellation or deadline error returned by a provider call is an
\* error like any other to the Enricher: the provider registered next is
\* still called in the same pass, under First, Best and Fallback; under
\* Fallback a first pass without success is still followed by the second
\* pass; and when a later provider call passes the gate the lookup returns a
\* result and no error.
C28_NoShortCircuit ==
    RanStrategy =>
        \A k \in DoneCalls :
            /\ calls[k].provider # providers[Len(providers)]
                  => /\ k < Len(calls)
                     /\ calls[k + 1].pass = calls[k].pass
                     /\ \E i \in 1..(Len(providers) - 1) :
                           /\ providers[i] = calls[k].provider
                           /\ providers[i + 1] = calls[k + 1].provider
            /\ (/\ config.Strategy = "fallback"
                /\ calls[k].pass = 1
                /\ \A j \in PassCalls(1) : ~CallPasses(j))
                  => \E j \in PassCalls(2) : calls[j].provider = providers[1]
            /\ (\E j \in (k + 1)..Len(calls) : CallPasses(j))
                  => /\ outcome.err = NoErr
                     /\ outcome.result # NilResult

\* The first provider reported the context done and the lookup returned the
\* second provider's record.
C28_Witness ==
    /\ RanStrategy
    /\ 1 \in DoneCalls
    /\ Len(calls) >= 2
    /\ CallPasses(2)
    /\ outcome = [result |-> calls[2].resp.result, err |-> NoErr]

\* ------------------------------------------------------------- strings
\* The strings the adapter compares or parses are sequences of one-character
\* strings; strings it only stores or hands on stay TLA+ strings.

UpperChars ==
    <<"A", "B", "C", "D", "E", "F", "G", "H", "I", "J", "K", "L", "M",
      "N", "O", "P", "Q", "R", "S", "T", "U", "V", "W", "X", "Y", "Z">>

LowerChars ==
    <<"a", "b", "c", "d", "e", "f", "g", "h", "i", "j", "k", "l", "m",
      "n", "o", "p", "q", "r", "s", "t", "u", "v", "w", "x", "y", "z">>

DigitChars == <<"0", "1", "2", "3", "4", "5", "6", "7", "8", "9">>

\* The characters in byte order.
ByteOrder == <<" ", "+", "-", ".", "/">> \o DigitChars \o UpperChars \o LowerChars

Ord(c) == CHOOSE i \in 1..Len(ByteOrder) : ByteOrder[i] = c

IsUpper(c) == \E i \in 1..Len(UpperChars) : UpperChars[i] = c

IsDigit(c) == \E i \in 1..Len(DigitChars) : DigitChars[i] = c

DigitVal(c) == (CHOOSE i \in 1..Len(DigitChars) : DigitChars[i] = c) - 1

ToLower(c) ==
    IF IsUpper(c)
    THEN LowerChars[CHOOSE i \in 1..Len(UpperChars) : UpperChars[i] = c]
    ELSE c

\* strings.EqualFold
EqualFold(s, t) ==
    /\ Len(s) = Len(t)
    /\ \A i \in 1..Len(s) : ToLower(s[i]) = ToLower(t[i])

\* s < t on Go strings: bytewise lexicographic.
RECURSIVE StrLess(_, _)
StrLess(s, t) ==
    IF Len(t) = 0 THEN FALSE
    ELSE IF Len(s) = 0 THEN TRUE
    ELSE IF s[1] # t[1] THEN Ord(s[1]) < Ord(t[1])
    ELSE StrLess(Tail(s), Tail(t))

RECURSIVE DigitsValue(_)
DigitsValue(s) ==
    IF Len(s) = 0 THEN 0
    ELSE 10 * DigitsValue(SubSeq(s, 1, Len(s) - 1)) + DigitVal(s[Len(s)])

\* strconv.Atoi: an optional sign and then one or more digits.
Atoi(s) ==
    LET signed == Len(s) > 0 /\ s[1] \in {"+", "-"}
        digits == IF signed THEN Tail(s) ELSE s
    IN  IF Len(digits) > 0 /\ \A i \in 1..Len(digits) : IsDigit(digits[i])
        THEN [ok |-> TRUE,
              val |-> IF signed /\ s[1] = "-" THEN 0 - DigitsValue(digits)
                      ELSE DigitsValue(digits)]
        ELSE [ok |-> FALSE, val |-> 0]

\* ------------------------------------------------------------- float64
\* A positive float64 is [exp, sig]: sig is its 53-bit significand, most
\* significant bit first and that bit 1, and its value is sig * 2^(exp - 52).
\* 0.0 has the empty significand.  Addition is IEEE 754 addition, rounding to
\* nearest, ties to even; the numbers the program adds are far from overflow
\* and underflow.

SigBits == 53

HexDigitBits(d) ==
    CASE d = "0" -> <<0, 0, 0, 0>> [] d = "1" -> <<0, 0, 0, 1>>
      [] d = "2" -> <<0, 0, 1, 0>> [] d = "3" -> <<0, 0, 1, 1>>
      [] d = "4" -> <<0, 1, 0, 0>> [] d = "5" -> <<0, 1, 0, 1>>
      [] d = "6" -> <<0, 1, 1, 0>> [] d = "7" -> <<0, 1, 1, 1>>
      [] d = "8" -> <<1, 0, 0, 0>> [] d = "9" -> <<1, 0, 0, 1>>
      [] d = "A" -> <<1, 0, 1, 0>> [] d = "B" -> <<1, 0, 1, 1>>
      [] d = "C" -> <<1, 1, 0, 0>> [] d = "D" -> <<1, 1, 0, 1>>
      [] d = "E" -> <<1, 1, 1, 0>> [] d = "F" -> <<1, 1, 1, 1>>

RECURSIVE HexBits(_)
HexBits(h) == IF h = <<>> THEN <<>> ELSE HexDigitBits(Head(h)) \o HexBits(Tail(h))

\* The float64 1.frac * 2^exp, frac given as the 13 hexadecimal digits of the
\* fraction field.
Float64(exp, frac) == [exp |-> exp, sig |-> <<1>> \o HexBits(frac)]

Zero64 == [exp |-> 0, sig |-> <<>>]

Zeros(n) == [i \in 1..n |-> 0]

\* The carry into bit i of a + b, bit strings of one length: some lower bit
\* generates a carry and every bit between hands it on.
CarryInto(a, b, i) ==
    \E j \in (i + 1)..Len(a) :
        /\ a[j] + b[j] = 2
        /\ \A k \in (i + 1)..(j - 1) : a[k] + b[k] = 1

\* a + b on bit strings of one length; the result is one bit longer.
addBits(a, b) ==
    [i \in 1..(Len(a) + 1) |->
        IF i = 1 THEN (IF CarryInto(a, b, 0) THEN 1 ELSE 0)
        ELSE (a[i - 1] + b[i - 1] + (IF CarryInto(a, b, i - 1) THEN 1 ELSE 0)) % 2]

\* a < b on bit strings of one length.
BitsLess(a, b) ==
    \E i \in 1..Len(a) :
        /\ a[i] < b[i]
        /\ \A k \in 1..(i - 1) : a[k] = b[k]

\* roundFloat64 rounding every inexact sum upwards.
roundFloat64_Up(exp, bits) ==
    LET top == SubSeq(bits, 1, SigBits)
        rest == SubSeq(bits, SigBits + 1, Len(bits))
        inc == addBits(top, Zeros(SigBits - 1) \o <<1>>)
    IN  IF \A i \in 1..Len(rest) : rest[i] = 0 THEN [exp |-> exp, sig |-> top]
        ELSE IF inc[1] = 1 THEN [exp |-> exp + 1, sig |-> SubSeq(inc, 1, SigBits)]
        ELSE [exp |-> exp, sig |-> Tail(inc)]

\* The float64 nearest to bits * 2^(exp - 52), bits a string of at least 53
\* bits beginning with 1, of which the first 53 are kept.
roundFloat64(exp, bits) ==
    LET top == SubSeq(bits, 1, SigBits)
        rest == SubSeq(bits, SigBits + 1, Len(bits))
        up == /\ rest # <<>>
              /\ rest[1] = 1
              /\ \/ \E i \in 2..Len(rest) : rest[i] = 1
                 \/ top[SigBits] = 1
        inc == addBits(top, Zeros(SigBits - 1) \o <<1>>)
    IN  IF ~up THEN [exp |-> exp, sig |-> top]
        ELSE IF inc[1] = 1 THEN [exp |-> exp + 1, sig |-> SubSeq(inc, 1, SigBits)]
        ELSE [exp |-> exp, sig |-> Tail(inc)]

\* x + y in float64.
addFloat64(x, y) ==
    IF x = Zero64 THEN y
    ELSE IF y = Zero64 THEN x
    ELSE LET a == IF x.exp >= y.exp THEN x ELSE y
             b == IF x.exp >= y.exp THEN y ELSE x
             d == a.exp - b.exp
             sum == addBits(a.sig \o Zeros(d), Zeros(d) \o b.sig)
         IN  IF sum[1] = 1 THEN roundFloat64(a.exp + 1, sum)
             ELSE roundFloat64(a.exp, Tail(sum))

\* x > y in float64, neither negative.
gtFloat64(x, y) ==
    IF x = Zero64 THEN FALSE
    ELSE IF y = Zero64 THEN TRUE
    ELSE \/ x.exp > y.exp
         \/ x.exp = y.exp /\ BitsLess(y.sig, x.sig)

Nines == <<"9", "9", "9", "9", "9", "9", "9", "9", "9", "9", "9", "9">>

\* The float64 constants of CalculateConfidence: 0x3FB999999999999A,
\* 0x3FC999999999999A, 0x3FD999999999999A, 0x3FF0000000000000.
f0_1 == Float64(0 - 4, Nines \o <<"A">>)

f0_2 == Float64(0 - 3, Nines \o <<"A">>)

f0_4 == Float64(0 - 2, Nines \o <<"A">>)

f1_0 == Float64(0, <<"0", "0", "0", "0", "0", "0", "0", "0", "0", "0", "0", "0", "0">>)

\* ------------------------------------------------- MusicBrainz: functions

\* The sum with the release date and the year each earning their own 0.1.
confidenceSum_DateAndYear(metadata, exactMatch) ==
    LET c1 == addFloat64(Zero64, f0_2)
        c2 == addFloat64(c1, IF exactMatch THEN f0_4 ELSE f0_2)
        c3 == IF metadata.Label # "" THEN addFloat64(c2, f0_2) ELSE c2
        c4 == IF metadata.ReleaseDate # <<>> THEN addFloat64(c3, f0_1) ELSE c3
        c5 == IF metadata.Year > 0 THEN addFloat64(c4, f0_1) ELSE c4
        c6 == IF metadata.CatalogNumber # "" THEN addFloat64(c5, f0_1) ELSE c5
    IN  c6

\* CalculateConfidence before its cap: the sum of the score and the bonuses,
\* added in the order of the code.
confidenceSum(metadata, exactMatch) ==
    LET c1 == addFloat64(Zero64, f0_2)
        c2 == addFloat64(c1, IF exactMatch THEN f0_4 ELSE f0_2)
        c3 == IF metadata.Label # "" THEN addFloat64(c2, f0_2) ELSE c2
        c4 == IF metadata.ReleaseDate # <<>> \/ metadata.Year > 0
              THEN addFloat64(c3, f0_1) ELSE c3
        c5 == IF metadata.CatalogNumber # "" THEN addFloat64(c4, f0_1) ELSE c4
    IN  c5

CalculateConfidence(metadata, exactMatch) ==
    LET confidence == confidenceSum(metadata, exactMatch)
    IN  IF gtFloat64(confidence, f1_0) THEN f1_0 ELSE confidence

\* Some credited artist of the recording equals the artist, ignoring case.
ArtistMatches(rec, artist) ==
    \E i \in 1..Len(rec.ArtistCredit) : EqualFold(rec.ArtistCredit[i], artist)

\* The loop over recording.ArtistCredit in findBestRecordingMatch, from credit
\* i on: 10 for the first credit that matches, and the loop breaks there.
RECURSIVE artistBonus(_, _, _)
artistBonus(credits, targetArtist, i) ==
    IF i > Len(credits) THEN 0
    ELSE IF EqualFold(credits[i], targetArtist) THEN 10
    ELSE artistBonus(credits, targetArtist, i + 1)

\* The score findBestRecordingMatch gives one recording.
AdjustedScore(rec, targetArtist, targetTitle) ==
    rec.Score
    + (IF EqualFold(rec.Title, targetTitle) THEN 10 ELSE 0)
    + artistBonus(rec.ArtistCredit, targetArtist, 1)

\* The loop of findBestRecordingMatch with score >= bestScore as its test.
RECURSIVE bestRecordingFrom_LastWins(_, _, _, _, _, _)
bestRecordingFrom_LastWins(recordings, targetArtist, targetTitle, i, bestScore, best) ==
    IF i > Len(recordings) THEN best
    ELSE LET score == AdjustedScore(recordings[i], targetArtist, targetTitle)
         IN  IF score >= bestScore
             THEN bestRecordingFrom_LastWins(recordings, targetArtist, targetTitle,
                                             i + 1, score, i)
             ELSE bestRecordingFrom_LastWins(recordings, targetArtist, targetTitle,
                                             i + 1, bestScore, best)

\* The loop of findBestRecordingMatch from index i on; the result is the
\* index of bestRecording, 0 for nil.
RECURSIVE bestRecordingFrom(_, _, _, _, _, _)
bestRecordingFrom(recordings, targetArtist, targetTitle, i, bestScore, best) ==
    IF i > Len(recordings) THEN best
    ELSE LET score == AdjustedScore(recordings[i], targetArtist, targetTitle)
         IN  IF score > bestScore
             THEN bestRecordingFrom(recordings, targetArtist, targetTitle, i + 1, score, i)
             ELSE bestRecordingFrom(recordings, targetArtist, targetTitle, i + 1,
                                    bestScore, best)

findBestRecordingMatch(recordings, targetArtist, targetTitle) ==
    IF Len(recordings) = 0 THEN 0
    ELSE bestRecordingFrom(recordings, targetArtist, targetTitle, 1, 0, 0)

\* The loop of findBestRelease with release.Date <= earliestDate as its test.
RECURSIVE bestReleaseFrom_LastEarliest(_, _, _, _)
bestReleaseFrom_LastEarliest(releases, i, earliestDate, best) ==
    IF i > Len(releases) THEN best
    ELSE IF releases[i].Date # <<>>
         THEN IF earliestDate = <<>> \/ ~StrLess(earliestDate, releases[i].Date)
              THEN bestReleaseFrom_LastEarliest(releases, i + 1, releases[i].Date, i)
              ELSE bestReleaseFrom_LastEarliest(releases, i + 1, earliestDate, best)
         ELSE IF best = 0
              THEN bestReleaseFrom_LastEarliest(releases, i + 1, earliestDate, i)
              ELSE bestReleaseFrom_LastEarliest(releases, i + 1, earliestDate, best)

\* The loop of findBestRelease from index i on; best is an index, 0 for nil.
RECURSIVE bestReleaseFrom(_, _, _, _)
bestReleaseFrom(releases, i, earliestDate, best) ==
    IF i > Len(releases) THEN best
    ELSE IF releases[i].Date # <<>>
         THEN IF earliestDate = <<>> \/ StrLess(releases[i].Date, earliestDate)
              THEN bestReleaseFrom(releases, i + 1, releases[i].Date, i)
              ELSE bestReleaseFrom(releases, i + 1, earliestDate, best)
         ELSE IF best = 0
              THEN bestReleaseFrom(releases, i + 1, earliestDate, i)
              ELSE bestReleaseFrom(releases, i + 1, earliestDate, best)

findBestRelease(releases, preferOriginal) ==
    IF Len(releases) = 0 THEN 0
    ELSE IF ~preferOriginal THEN 1
    ELSE LET best == bestReleaseFrom(releases, 1, <<>>, 0)
         IN  IF best = 0 /\ Len(releases) > 0 THEN 1 ELSE best

\* convertToTrackMetadata with exactMatch set by either match alone.
convertToTrackMetadata_EitherMatch(rec, release, originalArtist, originalTitle) ==
    LET year == IF release.Date # <<>> /\ Len(release.Date) >= 4
                   /\ Atoi(SubSeq(release.Date, 1, 4)).ok
                THEN Atoi(SubSeq(release.Date, 1, 4)).val
                ELSE 0
        label == IF Len(release.LabelInfo) > 0 THEN release.LabelInfo[1].Label ELSE ""
        catno == IF Len(release.LabelInfo) > 0 THEN release.LabelInfo[1].CatalogNumber
                 ELSE ""
        metadata == [Artist |-> originalArtist, Title |-> originalTitle,
                     Album |-> release.Title, Label |-> label,
                     ReleaseDate |-> release.Date, Genre |-> "",
                     CatalogNumber |-> catno, Year |-> year,
                     ProviderID |-> rec.ID, ProviderName |-> "MusicBrainz",
                     Confidence |-> 0,
                     Extra |-> [musicbrainz_recording_id |-> rec.ID,
                                musicbrainz_release_id |-> release.ID,
                                musicbrainz_score |-> rec.Score]]
        exact == ArtistMatches(rec, originalArtist) \/ EqualFold(rec.Title, originalTitle)
    IN  [metadata EXCEPT !.Confidence = CalculateConfidence(metadata, exact)]

\* convertToTrackMetadata; Extra holds the three MusicBrainz identifiers.
convertToTrackMetadata(rec, release, originalArtist, originalTitle) ==
    LET year == IF release.Date # <<>> /\ Len(release.Date) >= 4
                   /\ Atoi(SubSeq(release.Date, 1, 4)).ok
                THEN Atoi(SubSeq(release.Date, 1, 4)).val
                ELSE 0
        label == IF Len(release.LabelInfo) > 0 THEN release.LabelInfo[1].Label ELSE ""
        catno == IF Len(release.LabelInfo) > 0 THEN release.LabelInfo[1].CatalogNumber
                 ELSE ""
        metadata == [Artist |-> originalArtist, Title |-> originalTitle,
                     Album |-> release.Title, Label |-> label,
                     ReleaseDate |-> release.Date, Genre |-> "",
                     CatalogNumber |-> catno, Year |-> year,
                     ProviderID |-> rec.ID, ProviderName |-> "MusicBrainz",
                     Confidence |-> 0,
                     Extra |-> [musicbrainz_recording_id |-> rec.ID,
                                musicbrainz_release_id |-> release.ID,
                                musicbrainz_score |-> rec.Score]]
        exact == ArtistMatches(rec, originalArtist) /\ EqualFold(rec.Title, originalTitle)
    IN  [metadata EXCEPT !.Confidence = CalculateConfidence(metadata, exact)]

\* ---------------------------------------------------- MusicBrainz: data

sMusic == <<"M", "u", "s", "i", "c">>

sMUSIC == <<"M", "U", "S", "I", "C">>

sBukem == <<"L", "T", "J", " ", "B", "u", "k", "e", "m">>

sGoldie == <<"G", "o", "l", "d", "i", "e">>

d1993 == <<"1", "9", "9", "3", "-", "0", "4", "-", "0", "1">>

d2010 == <<"2", "0", "1", "0", "-", "0", "1", "-", "0", "1">>

d2000 == <<"2", "0", "0", "0", "-", "0", "1", "-", "0", "1">>

\* Dates that are short, that do not begin with a number, or whose first
\* four characters are a signed number.
dShort == <<"1", "9", "9">>

dDecade == <<"1", "9", "9", "x", "-", "0", "4">>

dSigned == <<"-", "1", "9", "3", "-", "0", "4">>

\* A date that gives only the year.
dYear == <<"1", "9", "9", "3">>

\* The requests LookupWithHints is called with.
HintRequests ==
    { [Artist |-> sBukem, Title |-> sMusic, Album |-> "", Genre |-> "", Year |-> "",
       Duration |-> 0, PreferOriginalRelease |-> TRUE, MaxResults |-> 5],
      [Artist |-> sBukem, Title |-> sMusic, Album |-> "Logical Progression",
       Genre |-> "dnb", Year |-> "1996", Duration |-> 300,
       PreferOriginalRelease |-> FALSE, MaxResults |-> 3] }

\* The recordings arrays a search response may carry.
SearchResults ==
    { <<>>,
      <<[ID |-> "rec-0", Title |-> sGoldie, Score |-> 0, ArtistCredit |-> <<sGoldie>>]>>,
      <<[ID |-> "rec-1", Title |-> sGoldie, Score |-> 90, ArtistCredit |-> <<sGoldie>>],
        [ID |-> "rec-2", Title |-> sMUSIC, Score |-> 80, ArtistCredit |-> <<sBukem>>]>> }

\* The releases arrays a recording lookup response may carry.
ReleaseLists ==
    { <<>>,
      <<[ID |-> "rel-1", Title |-> "Reissue", Date |-> d2010, LabelInfo |-> <<>>],
        [ID |-> "rel-2", Title |-> "Music / Enchanted", Date |-> d1993,
         LabelInfo |-> <<[CatalogNumber |-> "GLR 002", Label |-> "Good Looking"]>>]>> }

\* The ways an HTTP exchange fails that is not cut short by the context: the
\* error searchRecordings / getRecordingReleases returns.
HTTPFailures ==
    { <<"musicbrainz API returned status 503">>,
      Wrap("http request failed", <<"Get", "connection refused">>),
      Wrap("failed to read response body", <<"unexpected EOF">>),
      Wrap("failed to parse JSON response", <<"unexpected end of JSON input">>) }

\* ctx.Err() of a context that is done.
CtxErr(c) == IF c = "canceled" THEN Canceled ELSE DeadlineExceeded

\* The error of an HTTP exchange the context cuts short: client.Do's
\* *url.Error around ctx.Err(), or the body read failing with it.
HTTPAborted(c) ==
    { Wrap("http request failed", Wrap("Get", CtxErr(c))),
      Wrap("failed to read response body", CtxErr(c)) }

\* ------------------------------------------------- MusicBrainz: actions

\* LookupWithHints returns (nil, err).
mbFail(err) ==
    /\ mpc' = "done"
    /\ mout' = [result |-> NilResult, err |-> err]

\* waitForRateLimit without its test of the elapsed time: lastRequest is set
\* and nil returned at once.
waitForRateLimit_NoWait(waiting, granted) ==
    /\ mpc' = granted
    /\ lastRequest' = now
    /\ prevRequest' = lastRequest
    /\ UNCHANGED waitUntil

\* waitForRateLimit up to its select: it waits when the last request is less
\* than rateLimit ago, and otherwise sets lastRequest and returns nil at once,
\* without looking at the context.
waitForRateLimit(waiting, granted) ==
    LET elapsed == now - lastRequest
    IN  IF elapsed < rateLimit
        THEN /\ mpc' = waiting
             /\ waitUntil' = now + (rateLimit - elapsed)
             /\ UNCHANGED <<lastRequest, prevRequest>>
        ELSE /\ mpc' = granted
             /\ lastRequest' = now
             /\ prevRequest' = lastRequest
             /\ UNCHANGED waitUntil

\* A caller enters LookupWithHints with request r and a context that is live
\* or already done.
LookupWithHints(r, c) ==
    /\ mpc = "idle"
    /\ hints' = r
    /\ ctx' = c
    /\ ctx0' = c
    /\ recording' = 0
    /\ requests' = <<>>
    /\ mout' = NoOutcome
    /\ waitForRateLimit("wait1", "doSearch")
    /\ UNCHANGED <<tvars, bvars, fvars, evars, now>>

\* MusicBrainzProvider.Lookup: LookupWithHints with the request it builds.
mbLookup(artist, title, c) ==
    LookupWithHints([Artist |-> artist, Title |-> title, Album |-> "", Genre |-> "",
                     Year |-> "", Duration |-> 0, PreferOriginalRelease |-> TRUE,
                     MaxResults |-> 5], c)

\* The timer of the select fires: lastRequest is set and the wait returns nil.
waitCompleted ==
    /\ mpc \in {"wait1", "wait2"}
    /\ now >= waitUntil
    /\ lastRequest' = now
    /\ prevRequest' = lastRequest
    /\ mpc' = IF mpc = "wait1" THEN "doSearch" ELSE "doDetail"
    /\ UNCHANGED <<tvars, bvars, fvars, evars, now, ctx, ctx0, waitUntil, hints, recording, requests, mout>>

\* An aborted first wait that sets lastRequest all the same.
waitAbortedBeforeSearch_Stamps ==
    /\ mpc = "wait1"
    /\ ctx # "live"
    /\ mbFail(CtxErr(ctx))
    /\ lastRequest' = now
    /\ prevRequest' = lastRequest
    /\ UNCHANGED <<tvars, bvars, fvars, evars, now, ctx, ctx0, waitUntil, hints,
                   recording, requests>>

\* ctx.Done() wins the select of the first wait: LookupWithHints returns the
\* error of waitForRateLimit as it is.
waitAbortedBeforeSearch ==
    /\ mpc = "wait1"
    /\ ctx # "live"
    /\ mbFail(CtxErr(ctx))
    /\ UNCHANGED <<tvars, bvars, fvars, evars, now, lastRequest, prevRequest, ctx, ctx0, waitUntil, hints,
                   recording, requests>>

\* ctx.Done() wins the select of the second wait: getRecordingReleases returns
\* the error as it is and LookupWithHints wraps it.
waitAbortedBeforeDetail ==
    /\ mpc = "wait2"
    /\ ctx # "live"
    /\ mbFail(Wrap("musicbrainz release lookup failed", CtxErr(ctx)))
    /\ UNCHANGED <<tvars, bvars, fvars, evars, now, lastRequest, prevRequest, ctx, ctx0, waitUntil, hints,
                   recording, requests>>

\* searchRecordings hands its request to client.Do: with the context done the
\* client returns its error without sending; otherwise the request goes out.
doSearch ==
    /\ mpc = "doSearch"
    /\ IF ctx # "live"
       THEN /\ mbFail(Wrap("musicbrainz recording search failed",
                           Wrap("http request failed", Wrap("Get", CtxErr(ctx)))))
            /\ UNCHANGED requests
       ELSE /\ requests' = Append(requests, [kind |-> "search", at |-> now])
            /\ mpc' = "search"
            /\ UNCHANGED mout
    /\ UNCHANGED <<tvars, bvars, fvars, evars, now, lastRequest, prevRequest, ctx, ctx0, waitUntil, hints,
                   recording>>

\* The search request ends in an error: a failure of the exchange, or the
\* context done while it was under way.
searchFails ==
    /\ mpc = "search"
    /\ \E e \in IF ctx = "live" THEN HTTPFailures ELSE HTTPAborted(ctx) :
          mbFail(Wrap("musicbrainz recording search failed", e))
    /\ UNCHANGED <<tvars, bvars, fvars, evars, now, lastRequest, prevRequest, ctx, ctx0, waitUntil, hints,
                   recording, requests>>

\* An answered search that goes on to the detail request with no wait of its
\* own.
searchSucceeds_NoWait ==
    /\ mpc = "search"
    /\ \E recordings \in SearchResults :
          LET best == findBestRecordingMatch(recordings, hints.Artist, hints.Title)
          IN  IF Len(recordings) = 0 \/ best = 0
              THEN /\ mbFail(ErrNotFound)
                   /\ UNCHANGED <<lastRequest, prevRequest, waitUntil, recording>>
              ELSE /\ recording' = recordings[best]
                   /\ mpc' = "doDetail"
                   /\ UNCHANGED <<lastRequest, prevRequest, waitUntil, mout>>
    /\ UNCHANGED <<tvars, bvars, fvars, evars, now, ctx, ctx0, hints, requests>>

\* The search request is answered: no recordings or no best recording is
\* ErrNotFound; otherwise getRecordingReleases starts with its own wait.
searchSucceeds ==
    /\ mpc = "search"
    /\ \E recordings \in SearchResults :
          LET best == findBestRecordingMatch(recordings, hints.Artist, hints.Title)
          IN  IF Len(recordings) = 0 \/ best = 0
              THEN /\ mbFail(ErrNotFound)
                   /\ UNCHANGED <<lastRequest, prevRequest, waitUntil, recording>>
              ELSE /\ recording' = recordings[best]
                   /\ waitForRateLimit("wait2", "doDetail")
                   /\ UNCHANGED mout
    /\ UNCHANGED <<tvars, bvars, fvars, evars, now, ctx, ctx0, hints, requests>>

\* getRecordingReleases hands its request to client.Do.
doDetail ==
    /\ mpc = "doDetail"
    /\ IF ctx # "live"
       THEN /\ mbFail(Wrap("musicbrainz release lookup failed",
                           Wrap("http request failed", Wrap("Get", CtxErr(ctx)))))
            /\ UNCHANGED requests
       ELSE /\ requests' = Append(requests, [kind |-> "detail", at |-> now])
            /\ mpc' = "detail"
            /\ UNCHANGED mout
    /\ UNCHANGED <<tvars, bvars, fvars, evars, now, lastRequest, prevRequest, ctx, ctx0, waitUntil, hints,
                   recording>>

detailFails ==
    /\ mpc = "detail"
    /\ \E e \in IF ctx = "live" THEN HTTPFailures ELSE HTTPAborted(ctx) :
          mbFail(Wrap("musicbrainz release lookup failed", e))
    /\ UNCHANGED <<tvars, bvars, fvars, evars, now, lastRequest, prevRequest, ctx, ctx0, waitUntil, hints,
                   recording, requests>>

\* The recording lookup is answered: no best release is ErrNotFound;
\* otherwise the metadata is returned.
detailSucceeds ==
    /\ mpc = "detail"
    /\ \E releases \in ReleaseLists :
          LET best == findBestRelease(releases, hints.PreferOriginalRelease)
          IN  IF best = 0
              THEN mbFail(ErrNotFound)
              ELSE /\ mpc' = "done"
                   /\ mout' = [result |-> <<convertToTrackMetadata(recording, releases[best],
                                                                   hints.Artist, hints.Title)>>,
                               err |-> NoErr]
    /\ UNCHANGED <<tvars, bvars, fvars, evars, now, lastRequest, prevRequest, ctx, ctx0, waitUntil, hints,
                   recording, requests>>

\* The caller has its answer; the provider is free for the next call.
mbReturn ==
    /\ mpc = "done"
    /\ mpc' = "idle"
    /\ ctx' = "live"
    /\ ctx0' = "live"
    /\ hints' = NoRequest
    /\ recording' = 0
    /\ requests' = <<>>
    /\ mout' = NoOutcome
    /\ waitUntil' = 0
    /\ UNCHANGED <<tvars, bvars, fvars, evars, now, lastRequest, prevRequest>>

\* The caller cancels the context, or its deadline passes, during the call.
ctxDone ==
    /\ mpc \notin {"idle", "done"}
    /\ ctx = "live"
    /\ \E c \in {"canceled", "expired"} : ctx' = c
    /\ UNCHANGED <<tvars, bvars, fvars, evars, now, lastRequest, prevRequest, ctx0, mpc, waitUntil, hints,
                   recording, requests, mout>>

\* Time passes.
Tick ==
    /\ now < MaxTime
    /\ now' = now + 1
    /\ UNCHANGED <<tvars, bvars, fvars, evars, lastRequest, prevRequest, ctx, ctx0, mpc, waitUntil, hints,
                   recording, requests, mout>>

\* One provider, newly made, and no enricher at work.
Idle ==
    /\ providers = <<>>
    /\ config = [Strategy |-> "first", MinConfidence |-> 7, RequireLabel |-> FALSE]
    /\ pc = "idle"
    /\ entry = "none"
    /\ req = NoRequest
    /\ req0 = NoRequest
    /\ curReq = NoRequest
    /\ pass = 0
    /\ idx = 0
    /\ lastErr = NoErr
    /\ bestResult = NilResult
    /\ calls = <<>>
    /\ outcome = NoOutcome
    /\ now = 0
    /\ NewMusicBrainzProvider

InitMB ==
    /\ Idle
    /\ NoThreads
    /\ NoBatch
    /\ fin = NoCall
    /\ fout = <<>>

NextMB ==
    \/ \E r \in HintRequests, c \in {"live", "canceled", "expired"} : LookupWithHints(r, c)
    \/ \E c \in {"live", "canceled"} : mbLookup(sGoldie, sMusic, c)
    \/ waitCompleted
    \/ waitAbortedBeforeSearch
    \/ waitAbortedBeforeDetail
    \/ doSearch
    \/ searchFails
    \/ searchSucceeds
    \/ doDetail
    \/ detailFails
    \/ detailSucceeds
    \/ mbReturn
    \/ ctxDone
    \/ Tick

SpecMB == InitMB /\ [][NextMB]_vars

\* ------------------------------------- MusicBrainz: one provider, shared
\* waitForRateLimit called by two goroutines on the same provider.  The
\* struct has no lock, so the read of m.lastRequest, the wait and the write of
\* m.lastRequest of one goroutine interleave freely with those of the other.

\* What a read of m.lastRequest can yield besides the stored value while
\* another goroutine is storing: the value being stored, and, when a
\* time.Time with a monotonic reading is being stored over the zero value, a
\* torn value whose monotonic reading is zero, which time.Since measures from
\* the start of the process (tick 0).
RacyReads(t) ==
    LET storing == {u \in Threads \ {t} : tpc[u] = "store"}
    IN  {stamp[u] : u \in storing}
            \cup (IF storing # {} /\ lastRequest = ZeroTime THEN {0} ELSE {})

\* elapsed := time.Since(m.lastRequest) and the test elapsed < rateLimit:
\* the goroutine starts to wait, or takes time.Now() to store it.
raceRead(t) ==
    /\ tpc[t] = "idle"
    /\ \E v \in {lastRequest} \cup RacyReads(t) :
          /\ seen' = [seen EXCEPT ![t] = v]
          /\ IF now - v < rateLimit
             THEN /\ tpc' = [tpc EXCEPT ![t] = "wait"]
                  /\ UNCHANGED stamp
             ELSE /\ tpc' = [tpc EXCEPT ![t] = "store"]
                  /\ stamp' = [stamp EXCEPT ![t] = now]
    /\ UNCHANGED <<evars, mvars, bvars, fvars, released>>

\* A wait that ends whether or not its timer has fired.
raceTimer_Early(t) ==
    /\ tpc[t] = "wait"
    /\ tpc' = [tpc EXCEPT ![t] = "store"]
    /\ stamp' = [stamp EXCEPT ![t] = now]
    /\ UNCHANGED <<evars, mvars, bvars, fvars, seen, released>>

\* The timer of time.After(rateLimit - elapsed) fires.
raceTimer(t) ==
    /\ tpc[t] = "wait"
    /\ now >= seen[t] + rateLimit
    /\ tpc' = [tpc EXCEPT ![t] = "store"]
    /\ stamp' = [stamp EXCEPT ![t] = now]
    /\ UNCHANGED <<evars, mvars, bvars, fvars, seen, released>>

\* ctx.Done() wins the select: the call returns ctx.Err() and stores nothing.
raceAbort(t) ==
    /\ tpc[t] = "wait"
    /\ tpc' = [tpc EXCEPT ![t] = "idle"]
    /\ UNCHANGED <<evars, mvars, bvars, fvars, seen, stamp, released>>

\* m.lastRequest = time.Now(): the store completes and the wait returns nil.
raceStore(t) ==
    /\ tpc[t] = "store"
    /\ lastRequest' = stamp[t]
    /\ prevRequest' = lastRequest
    /\ tpc' = [tpc EXCEPT ![t] = "send"]
    /\ UNCHANGED <<evars, bvars, fvars, now, ctx, ctx0, mpc, waitUntil, hints, recording,
                   requests, mout, seen, stamp, released>>

\* The caller of the granted wait hands its request to the HTTP client.
raceSend(t) ==
    /\ tpc[t] = "send"
    /\ released' = [released EXCEPT ![t] = <<[seen |-> seen[t], granted |-> stamp[t],
                                             at |-> now]>>]
    /\ tpc' = [tpc EXCEPT ![t] = "idle"]
    /\ UNCHANGED <<evars, mvars, bvars, fvars, seen, stamp>>

InitRace ==
    /\ Idle
    /\ NoThreads
    /\ NoBatch
    /\ fin = NoCall
    /\ fout = <<>>

NextRace ==
    \/ \E t \in Threads : raceRead(t)
    \/ \E t \in Threads : raceTimer(t)
    \/ \E t \in Threads : raceAbort(t)
    \/ \E t \in Threads : raceStore(t)
    \/ \E t \in Threads : raceSend(t)
    \/ Tick

SpecRace == InitRace /\ [][NextRace]_vars

\* --------------------------------------------------- MusicBrainz: claims

\* The root of an error chain.
ErrRoot(err) == err[Len(err)]

\* LookupWithHints has failed because its context was done.
FailedByContext ==
    /\ mpc = "done"
    /\ mout.err # NoErr
    /\ ErrRoot(mout.err) \in {ErrRoot(Canceled), ErrRoot(DeadlineExceeded)}

\* C9: whenever LookupWithHints fails because the context was cancelled or
\* timed out during the call, in either wait or during either request, the
\* error it returns is exactly the context's error, not a wrapped one.
C9_CancellationVerbatim ==
    (FailedByContext /\ ctx0 = "live") => mout.err = CtxErr(ctx)

\* C10: a lookup made with an already cancelled context returns exactly
\* context.Canceled and sends no request, whatever the provider's history.
C10_CancelledAtEntry ==
    (mpc = "done" /\ ctx0 = "canceled")
        => /\ mout.err = Canceled
           /\ requests = <<>>

\* -------------------------------------------------- filename decomposer
\* cmd/batch.go.  File paths and names are sequences of one-character
\* strings; the only white space in them is the blank.

Digits == {DigitChars[i] : i \in 1..Len(DigitChars)}

Uppers == {UpperChars[i] : i \in 1..Len(UpperChars)}

\* \s of the patterns, and the white space of TrimSpace and Fields.
Spaces == {" "}

\* The number of characters of s from position i on that lie in class.
RECURSIVE Run(_, _, _)
Run(s, i, class) ==
    IF i > Len(s) \/ s[i] \notin class THEN 0 ELSE 1 + Run(s, i + 1, class)

Drop(s, n) == SubSeq(s, n + 1, Len(s))

\* strings.TrimSpace
TrimSpace(s) ==
    LET lead == Run(s, 1, Spaces)
        rest == Drop(s, lead)
        keep == CHOOSE k \in 0..Len(rest) :
                    /\ k = 0 \/ rest[k] \notin Spaces
                    /\ \A j \in (k + 1)..Len(rest) : rest[j] \in Spaces
    IN  SubSeq(rest, 1, keep)

\* strings.Count(s, c), c one character
Count(s, c) == Cardinality({i \in 1..Len(s) : s[i] = c})

\* The position of the first c in s, 0 when there is none.
Index(s, c) ==
    IF \E i \in 1..Len(s) : s[i] = c
    THEN CHOOSE i \in 1..Len(s) : s[i] = c /\ \A j \in 1..(i - 1) : s[j] # c
    ELSE 0

\* strings.SplitN(s, c, n), n > 0: at most n parts, the last one unsplit.
RECURSIVE SplitN(_, _, _)
SplitN(s, c, n) ==
    IF n = 1 \/ Index(s, c) = 0 THEN <<s>>
    ELSE <<SubSeq(s, 1, Index(s, c) - 1)>> \o SplitN(Drop(s, Index(s, c)), c, n - 1)

\* strings.Split(s, c)
Split(s, c) == SplitN(s, c, Count(s, c) + 1)

\* strings.Fields
RECURSIVE Fields(_)
Fields(s) ==
    LET t == Drop(s, Run(s, 1, Spaces))
        w == Run(t, 1, {t[i] : i \in 1..Len(t)} \ Spaces)
    IN  IF t = <<>> THEN <<>> ELSE <<SubSeq(t, 1, w)>> \o Fields(Drop(t, w))

\* filepath.Base
Base(path) ==
    LET slashes == Cardinality({k \in 1..Len(path) :
                                  \A j \in k..Len(path) : path[j] = "/"})
        p == SubSeq(path, 1, Len(path) - slashes)
        last == IF \E i \in 1..Len(p) : p[i] = "/"
                THEN CHOOSE i \in 1..Len(p) :
                         p[i] = "/" /\ \A j \in (i + 1)..Len(p) : p[j] # "/"
                ELSE 0
    IN  IF path = <<>> THEN <<".">>
        ELSE IF p = <<>> THEN <<"/">>
        ELSE Drop(p, last)

\* filepath.Ext: from the last dot of the last element on, "" without one.
Ext(path) ==
    LET dots == {i \in 1..Len(path) :
                    path[i] = "." /\ \A j \in i..Len(path) : path[j] # "/"}
    IN  IF dots = {} THEN <<>>
        ELSE Drop(path, (CHOOSE i \in dots : \A j \in dots : j <= i) - 1)

\* strings.TrimSuffix
TrimSuffix(s, suffix) ==
    IF Len(suffix) <= Len(s) /\ Drop(s, Len(s) - Len(suffix)) = suffix
    THEN SubSeq(s, 1, Len(s) - Len(suffix))
    ELSE s

\* The length of what ^[A-Z]?\d+\.?\s+ or ^[A-Z]?\d+\s*-\s* matches at the start
\* of name, 0 for no match: side says whether the pattern begins with [A-Z],
\* dot whether it allows the period, hyphen whether it ends in \s*-\s*
\* rather than \s+.  The classes are disjoint, so each greedy run is the whole
\* run and no shorter run can match.
prefixMatch(name, side, dot, hyphen) ==
    LET a == IF side THEN 1 ELSE 0
        d == Run(name, a + 1, Digits)
        o == IF dot /\ Run(name, a + d + 1, {"."}) > 0 THEN 1 ELSE 0
        w == Run(name, a + d + o + 1, Spaces)
        h == Run(name, a + d + o + w + 1, {"-"})
    IN  IF (side /\ Run(name, 1, Uppers) = 0) \/ d = 0 THEN 0
        ELSE IF hyphen
        THEN (IF h = 0 THEN 0
              ELSE a + d + w + 1 + Run(name, a + d + w + 2, Spaces))
        ELSE (IF w = 0 THEN 0 ELSE a + d + o + w)

\* re.ReplaceAllString(name, "") for one of the four anchored patterns.
stripPrefix(name, side, dot, hyphen) == Drop(name, prefixMatch(name, side, dot, hyphen))

cleanTrackPrefix(name) ==
    LET n1 == stripPrefix(name, FALSE, TRUE, FALSE)
        n2 == stripPrefix(n1, FALSE, FALSE, TRUE)
        n3 == stripPrefix(n2, TRUE, FALSE, FALSE)
        n4 == stripPrefix(n3, TRUE, FALSE, TRUE)
    IN  TrimSpace(n4)

Pair(artist, title) == [artist |-> artist, title |-> title]

parseOneHyphen(name) ==
    LET parts == SplitN(name, "-", 2)
    IN  IF Len(parts) = 2 THEN Pair(TrimSpace(parts[1]), TrimSpace(parts[2]))
        ELSE Pair(<<>>, <<>>)

\* parseTwoHyphens taking the middle part for the title.
parseTwoHyphens_Middle(name) ==
    LET parts == SplitN(name, "-", 3)
    IN  IF Len(parts) = 3 THEN Pair(TrimSpace(parts[1]), TrimSpace(parts[2]))
        ELSE Pair(<<>>, <<>>)

parseTwoHyphens(name) ==
    LET parts == SplitN(name, "-", 3)
    IN  IF Len(parts) = 3 THEN Pair(TrimSpace(parts[1]), TrimSpace(parts[3]))
        ELSE Pair(<<>>, <<>>)

\* parseFourHyphens with an artist that is empty when both of its parts are.
parseFourHyphens_BlankArtist(name) ==
    LET parts == SplitN(name, "-", 5)
        joined == TrimSpace(parts[1]) \o <<"/">> \o TrimSpace(parts[2])
    IN  IF Len(parts) = 5
        THEN Pair(IF joined = <<"/">> THEN <<>> ELSE joined, TrimSpace(parts[5]))
        ELSE Pair(<<>>, <<>>)

parseFourHyphens(name) ==
    LET parts == SplitN(name, "-", 5)
    IN  IF Len(parts) = 5
        THEN Pair(TrimSpace(parts[1]) \o <<"/">> \o TrimSpace(parts[2]),
                  TrimSpace(parts[5]))
        ELSE Pair(<<>>, <<>>)

trySpaceSeparated(name) ==
    LET words == Fields(name)
    IN  IF Len(words) = 2 THEN Pair(words[1], words[2]) ELSE Pair(<<>>, <<>>)

tryThreeHyphenFallback(name) ==
    LET parts == SplitN(name, "-", 4)
    IN  IF Len(parts) = 4 THEN Pair(TrimSpace(parts[1]), TrimSpace(parts[4]))
        ELSE Pair(<<>>, <<>>)

tryManyHyphenFallback(name) ==
    LET parts == Split(name, "-")
    IN  IF Len(parts) >= 3
        THEN Pair(TrimSpace(parts[1]), TrimSpace(parts[Len(parts)]))
        ELSE Pair(<<>>, <<>>)

handleEdgeCase(name, caseType) ==
    CASE caseType = "no_hyphens" -> trySpaceSeparated(name)
      [] caseType = "three_hyphens" -> tryThreeHyphenFallback(name)
      [] caseType = "many_hyphens" -> tryManyHyphenFallback(name)
      [] OTHER -> Pair(<<>>, <<>>)

\* The name parseFilenameWithEdgeCase dispatches on: the base name without
\* its extension and without track prefixes.
cleanedName(filePath) ==
    LET filename == Base(filePath)
    IN  cleanTrackPrefix(TrimSuffix(filename, Ext(filename)))

parseFilenameWithEdgeCase(filePath) ==
    LET name == cleanedName(filePath)
        hyphenCount == Count(name, "-")
        parsed == CASE hyphenCount = 0 -> handleEdgeCase(name, "no_hyphens")
                    [] hyphenCount = 1 -> parseOneHyphen(name)
                    [] hyphenCount = 2 -> parseTwoHyphens(name)
                    [] hyphenCount = 3 -> handleEdgeCase(name, "three_hyphens")
                    [] hyphenCount = 4 -> parseFourHyphens(name)
                    [] OTHER -> handleEdgeCase(name, "many_hyphens")
        edgeCase == CASE hyphenCount = 0 -> "no_hyphens"
                      [] hyphenCount = 3 -> "three_hyphens"
                      [] hyphenCount \in {1, 2, 4} -> ""
                      [] OTHER -> "many_hyphens"
    IN  [artist |-> parsed.artist, title |-> parsed.title, edgeCase |-> edgeCase]

\* ------------------------------------------------------ function calls

\* The longest recordings array of a search response.
MaxCandidates == 3

\* All sequences over S of length at most n.
SeqsUpTo(S, n) == UNION {[1..k -> S] : k \in 0..n}

\* The recordings a search response is made of: remote scores from 0 to 90
\* with neither the title "Music" nor a credit of LTJ Bukem, or with the title
\* in capitals and LTJ Bukem credited twice, and one of score 90 that matches
\* in title only.
Candidates ==
    {[ID |-> "rec", Title |-> m[1], Score |-> sc, ArtistCredit |-> m[2]] :
        sc \in {0, 50, 80, 90},
        m \in {<<sGoldie, <<sGoldie>>>>, <<sMUSIC, <<sGoldie, sBukem, sBukem>>>>}}
    \cup {[ID |-> "rec", Title |-> sMUSIC, Score |-> 90, ArtistCredit |-> <<sGoldie>>]}

\* findBestRecordingMatch(recordings, "LTJ Bukem", "Music")
RecordingCalls ==
    {[fn |-> "findBestRecordingMatch", recordings |-> rs, targetArtist |-> sBukem,
      targetTitle |-> sMusic] : rs \in SeqsUpTo(Candidates, MaxCandidates)}

callFindBestRecordingMatch ==
    /\ fin.fn = "findBestRecordingMatch"
    /\ fout = <<>>
    /\ fout' = <<findBestRecordingMatch(fin.recordings, fin.targetArtist,
                                        fin.targetTitle)>>
    /\ UNCHANGED <<evars, mvars, tvars, bvars, fin>>

\* The longest releases array of a recording lookup response.
MaxReleases == 3

\* The releases a response is made of: undated, or dated by day or by year.
DatedReleases ==
    {[ID |-> "rel", Title |-> "Music / Enchanted", Date |-> d, LabelInfo |-> <<>>] :
        d \in {<<>>, dYear, d1993, d2000, d2010}}

\* findBestRelease(releases, preferOriginal)
ReleaseCalls ==
    {[fn |-> "findBestRelease", releases |-> rs, preferOriginal |-> po] :
        rs \in SeqsUpTo(DatedReleases, MaxReleases), po \in BOOLEAN}

callFindBestRelease ==
    /\ fin.fn = "findBestRelease"
    /\ fout = <<>>
    /\ fout' = <<findBestRelease(fin.releases, fin.preferOriginal)>>
    /\ UNCHANGED <<evars, mvars, tvars, bvars, fin>>

\* A TrackMetadata with the four fields CalculateConfidence reads.
Metadata(label, date, year, catno) ==
    [Artist |-> sBukem, Title |-> sMusic, Album |-> "Music / Enchanted",
     Label |-> label, ReleaseDate |-> date, Genre |-> "", CatalogNumber |-> catno,
     Year |-> year, ProviderID |-> "rec", ProviderName |-> "MusicBrainz",
     Confidence |-> Zero64]

\* CalculateConfidence(metadata, exactMatch): every combination of label,
\* release date, year (negative, zero, positive) and catalog number.
ConfidenceCalls ==
    {[fn |-> "CalculateConfidence", metadata |-> Metadata(l, d, y, c), exactMatch |-> e] :
        l \in {"", "Good Looking", "Metalheadz"}, d \in {<<>>, d1993},
        y \in {0 - 193, 0, 1993}, c \in {"", "GLR 002"}, e \in BOOLEAN}

callCalculateConfidence ==
    /\ fin.fn = "CalculateConfidence"
    /\ fout = <<>>
    /\ fout' = <<CalculateConfidence(fin.metadata, fin.exactMatch)>>
    /\ UNCHANGED <<evars, mvars, tvars, bvars, fin>>

\* The label-info arrays of a release: none, one entry with or without a
\* catalog number or a label name, two entries.
LabelInfos ==
    LET gl == [CatalogNumber |-> "GLR 002", Label |-> "Good Looking"]
        mh == [CatalogNumber |-> "METH 001", Label |-> "Metalheadz"]
    IN  { <<>>, <<gl>>, <<[gl EXCEPT !.CatalogNumber = ""]>>, <<gl, mh>>,
          <<[CatalogNumber |-> "", Label |-> ""], mh>> }

\* convertToTrackMetadata(recording, release, "LTJ Bukem", "Music")
ConvertCalls ==
    {[fn |-> "convertToTrackMetadata",
      recording |-> [ID |-> "rec-1", Title |-> t, Score |-> 80, ArtistCredit |-> a],
      release |-> [ID |-> "rel-1", Title |-> "Music / Enchanted", Date |-> d,
                   LabelInfo |-> li],
      originalArtist |-> sBukem, originalTitle |-> sMusic] :
        t \in {sMUSIC, sGoldie}, a \in {<<>>, <<sGoldie>>, <<sGoldie, sBukem>>},
        d \in {<<>>, dShort, dYear, d1993, dDecade, dSigned}, li \in LabelInfos}

callConvertToTrackMetadata ==
    /\ fin.fn = "convertToTrackMetadata"
    /\ fout = <<>>
    /\ fout' = <<convertToTrackMetadata(fin.recording, fin.release, fin.originalArtist,
                                        fin.originalTitle)>>
    /\ UNCHANGED <<evars, mvars, tvars, bvars, fin>>

\* The most hyphen-separated segments of a generated file name.
MaxSegments == 6

sBlank == <<" ">>

sHyphen == <<"-">>

s01 == <<"0", "1">>

sA1 == <<"A", "1">>

sAiff == <<".", "a", "i", "f", "f">>

\* The segments joined by sep.
RECURSIVE Join(_, _)
Join(parts, sep) ==
    IF Len(parts) = 0 THEN <<>>
    ELSE IF Len(parts) = 1 THEN parts[1]
    ELSE parts[1] \o sep \o Join(Tail(parts), sep)

\* File names made of one to MaxSegments segments, each empty, a number or
\* two words, joined by " - " or by "-".
SegmentNames ==
    {Join(parts, sep) :
        parts \in SeqsUpTo({<<>>, s01, sBukem}, MaxSegments) \ {<<>>},
        sep \in {sBlank \o sHyphen \o sBlank, sHyphen}}

\* File names with track and side prefixes, of one word and of three words.
PrefixedNames ==
    LET at == sGoldie \o sBlank \o sHyphen \o sBlank \o sMusic
    IN  { sGoldie, at,
          sA1 \o sBlank \o sHyphen \o sBlank \o sMusic,
          sA1 \o sBlank \o at,
          sA1 \o sHyphen \o at,
          s01 \o sBlank \o at,
          s01 \o <<".">> \o sBlank \o at,
          s01 \o sBlank \o sA1 \o sBlank \o at,
          s01 \o sBlank \o sBukem,
          sGoldie \o sBlank \o sBukem }

\* parseFilenameWithEdgeCase(filePath): the names with the extension .aiff,
\* and one of them inside a directory.
ParseCalls ==
    {[fn |-> "parseFilenameWithEdgeCase", filePath |-> n \o sAiff] :
        n \in SegmentNames \cup PrefixedNames}
    \cup {[fn |-> "parseFilenameWithEdgeCase",
           filePath |-> sMusic \o <<"/">> \o sGoldie \o sHyphen \o sMusic \o sAiff]}

callParseFilenameWithEdgeCase ==
    /\ fin.fn = "parseFilenameWithEdgeCase"
    /\ fout = <<>>
    /\ fout' = <<parseFilenameWithEdgeCase(fin.filePath)>>
    /\ UNCHANGED <<evars, mvars, tvars, bvars, fin>>

\* cleanTrackPrefix(name): the same names without extension, and one that
\* begins with two track numbers.
CleanCalls ==
    {[fn |-> "cleanTrackPrefix", name |-> n] :
        n \in SegmentNames \cup PrefixedNames
                \cup {s01 \o sBlank \o <<"0", "2">> \o sBlank \o sHyphen \o sBlank
                        \o sGoldie \o sBlank \o sHyphen \o sBlank \o sMusic}}

callCleanTrackPrefix ==
    /\ fin.fn = "cleanTrackPrefix"
    /\ fout = <<>>
    /\ fout' = <<cleanTrackPrefix(fin.name)>>
    /\ UNCHANGED <<evars, mvars, tvars, bvars, fin>>

FunctionCalls ==
    RecordingCalls \cup ReleaseCalls \cup ConfidenceCalls \cup ConvertCalls
        \cup ParseCalls \cup CleanCalls

InitFunctions ==
    /\ Idle
    /\ NoThreads
    /\ NoBatch
    /\ fin \in FunctionCalls
    /\ fout = <<>>

NextFunctions ==
    \/ callFindBestRecordingMatch
    \/ callFindBestRelease
    \/ callCalculateConfidence
    \/ callConvertToTrackMetadata
    \/ callParseFilenameWithEdgeCase
    \/ callCleanTrackPrefix

SpecFunctions == InitFunctions /\ [][NextFunctions]_vars

\* ------------------------------------------------------- batch command
\* cmd/batch.go: runBatch and processFileWithEdgeCase.

\* hasBasicInfo of processFileWithEdgeCase
hasBasicInfo(artist, title) == title # <<>> /\ artist # <<>>

\* What the body of processFileWithEdgeCase works with once the file is open:
\* the fields of the embedded tags when tag.ReadFrom succeeds, and the parsed
\* file name otherwise.  A TXXX frame overrides what a TPUB frame said.
parsedInfo(parsed) ==
    [artist |-> parsed.artist, title |-> parsed.title, hasLabel |-> FALSE,
     parseEdgeCase |-> parsed.edgeCase]

fileInfo(f) ==
    IF f.tagged
    THEN [artist |-> TrimSpace(f.Artist), title |-> TrimSpace(f.Title),
          hasLabel |-> IF f.TXXX # <<>> THEN f.TXXX[1] # ""
                       ELSE IF f.TPUB # <<>> THEN f.TPUB[1] # ""
                       ELSE FALSE,
          parseEdgeCase |-> ""]
    ELSE parsedInfo(parseFilenameWithEdgeCase(f.path))

\* What metadataEnricher.Lookup returns to the batch: an error, (nil, nil) or
\* a result.
LookupOutcomes == {"err", "nil", "result"}

Returns(status, edgeCase) == [status |-> status, edgeCase |-> edgeCase]

\* The returns of processFileWithEdgeCase after the file is open and read,
\* info being what was read from it.
statusOf(info, enricher, lookup) ==
    IF ~hasBasicInfo(info.artist, info.title) THEN "needs_enrichment"
    ELSE IF info.hasLabel THEN "has_label"
    ELSE IF enricher /\ hasBasicInfo(info.artist, info.title) /\ lookup = "err"
    THEN "enrichment_failed"
    ELSE IF enricher /\ hasBasicInfo(info.artist, info.title) /\ lookup = "result"
    THEN "enriched"
    ELSE "needs_enrichment"

afterOpen(info, enricher, lookup) ==
    Returns(statusOf(info, enricher, lookup), info.parseEdgeCase)

\* processFileWithEdgeCase that reports the parsed tag of a file it could not
\* open.
processFileWithEdgeCase_TagOnError(f, enricher, lookup) ==
    IF ~f.opens THEN Returns("error", fileInfo(f).parseEdgeCase)
    ELSE afterOpen(fileInfo(f), enricher, lookup)

\* processFileWithEdgeCase(filePath, metadataEnricher, ctx): enricher says
\* whether metadataEnricher is non-nil, lookup what its Lookup returns if it is
\* called.
processFileWithEdgeCase(f, enricher, lookup) ==
    IF ~f.opens THEN Returns("error", "")
    ELSE afterOpen(fileInfo(f), enricher, lookup)

\* One iteration of the loop of runBatch: the next file is processed, the
\* counter of its status goes up by one, and the file is recorded under its
\* edge-case tag if it has one.
processFile ==
    /\ processed < Len(files)
    /\ \E lookup \in LookupOutcomes :
          \E r \in {processFileWithEdgeCase(files[processed + 1], enrichData, lookup)} :
              /\ counts' = IF r.status \in Statuses
                           THEN [counts EXCEPT ![r.status] = @ + 1]
                           ELSE counts
              /\ edgeCases' = IF r.edgeCase # ""
                              THEN [edgeCases EXCEPT ![r.edgeCase] =
                                        Append(@, files[processed + 1].path)]
                              ELSE edgeCases
              /\ returned' = Append(returned, r)
    /\ processed' = processed + 1
    /\ UNCHANGED <<evars, mvars, fvars, tvars, files, enrichData>>

\* The loop of runBatch handles at most MaxFiles files.
MaxFiles == 2

File(path, opens, tagged, artist, title, tpub, txxx) ==
    [path |-> path, opens |-> opens, tagged |-> tagged, Artist |-> artist,
     Title |-> title, TPUB |-> tpub, TXXX |-> txxx]

\* Files a directory can hold: one that cannot be opened, four without
\* embedded tags, and four with tags (with and without a label frame, with a
\* blank artist, with an empty TXXX frame next to a TPUB frame).
BatchFiles ==
    LET untagged(path, opens) == File(path, opens, FALSE, <<>>, <<>>, <<>>, <<>>)
        sep == <<" ", "-", " ">>
    IN  { untagged(sGoldie \o sAiff, FALSE),
          untagged(sGoldie \o sep \o sMusic \o sAiff, TRUE),
          untagged(sBukem \o sAiff, TRUE),
          untagged(sGoldie \o <<" ">> \o sBukem \o sAiff, TRUE),
          untagged(sep \o sep \o sep \o sep \o sMusic \o sAiff, TRUE),
          File(<<"1">> \o sAiff, TRUE, TRUE, sGoldie, sMusic, <<"Metalheadz">>, <<>>),
          File(<<"2">> \o sAiff, TRUE, TRUE, sGoldie, sMusic, <<>>, <<>>),
          File(<<"3">> \o sAiff, TRUE, TRUE, <<" ">>, sMusic, <<"Metalheadz">>, <<>>),
          File(<<"4">> \o sAiff, TRUE, TRUE, sGoldie, sMusic, <<"Metalheadz">>, <<"">>) }

\* runBatch up to its loop: the files found, each once, the counters at
\* zero, the map empty, and an enricher or none.
InitBatch ==
    /\ Idle
    /\ NoThreads
    /\ fin = NoCall
    /\ fout = <<>>
    /\ files \in {fs \in SeqsUpTo(BatchFiles, MaxFiles) :
                     \A i, j \in 1..Len(fs) : fs[i] = fs[j] => i = j}
    /\ enrichData \in BOOLEAN
    /\ processed = 0
    /\ counts = [s \in Statuses |-> 0]
    /\ edgeCases = [t \in EdgeCaseTags \ {""} |-> <<>>]
    /\ returned = <<>>

NextBatch == processFile

SpecBatch == InitBatch /\ [][NextBatch]_vars

\* ----------------------------------------------- function calls: claims

\* findBestRecordingMatch has returned.
RecordingChosen == fin.fn = "findBestRecordingMatch" /\ fout # <<>>

\* The adjusted score as the specification words it: the remote score, plus
\* 10 if the title is the target title up to case, plus 10 if some credited
\* artist is the target artist up to case.
ClaimedScore(k) ==
    fin.recordings[k].Score
    + (IF EqualFold(fin.recordings[k].Title, fin.targetTitle) THEN 10 ELSE 0)
    + (IF ArtistMatches(fin.recordings[k], fin.targetArtist) THEN 10 ELSE 0)

\* C12: the recording findBestRecordingMatch selects has the greatest adjusted
\* score of the list (remote score, +10 for a title match, +10 once for an
\* artist match, both ignoring case) and is the first one with that score.
C12_BestRecording ==
    (RecordingChosen /\ fout[1] # 0)
        => /\ fout[1] \in 1..Len(fin.recordings)
           /\ \A k \in 1..Len(fin.recordings) : ClaimedScore(k) <= ClaimedScore(fout[1])
           /\ \A k \in 1..(fout[1] - 1) : ClaimedScore(k) < ClaimedScore(fout[1])

\* Scores 50, 80, 90 where only the 80 matches title and artist: the 80 is
\* selected.
C12_Witness ==
    /\ RecordingChosen
    /\ Len(fin.recordings) = 3
    /\ fin.recordings[1].Score = 50 /\ ClaimedScore(1) = 50
    /\ fin.recordings[2].Score = 80 /\ ClaimedScore(2) = 100
    /\ fin.recordings[3].Score = 90 /\ ClaimedScore(3) = 90
    /\ fout[1] = 2

\* C13: for every non-empty recordings list findBestRecordingMatch selects
\* some recording; it returns nil only for the empty list, also when every
\* candidate has remote score 0 and matches neither title nor artist.
C13_NonEmptySelects ==
    (RecordingChosen /\ Len(fin.recordings) > 0) => fout[1] # 0

\* findBestRelease has returned.
ReleaseChosen == fin.fn = "findBestRelease" /\ fout # <<>>

\* The positions of the releases that carry a date.
Dated == {k \in 1..Len(fin.releases) : fin.releases[k].Date # <<>>}

\* C14: findBestRelease returns nil exactly for the empty list; without
\* preferOriginal it returns the first release; with it, the release with the
\* lexicographically smallest non-empty date, the first of them on equal
\* dates, wherever undated releases stand, and the first release when none
\* is dated.
C14_BestRelease ==
    ReleaseChosen =>
        LET n == Len(fin.releases)
            b == fout[1]
        IN  /\ (b = 0) <=> (n = 0)
            /\ (n > 0 /\ ~fin.preferOriginal) => b = 1
            /\ (n > 0 /\ fin.preferOriginal /\ Dated = {}) => b = 1
            /\ (n > 0 /\ fin.preferOriginal /\ Dated # {}) =>
                  /\ b \in Dated
                  /\ \A k \in Dated :
                        ~StrLess(fin.releases[k].Date, fin.releases[b].Date)
                  /\ \A k \in Dated :
                        k < b => StrLess(fin.releases[b].Date, fin.releases[k].Date)

\* Dates 2010-01-01, 1993-04-01, 2000-01-01 with preferOriginal: the second
\* release is selected.
C14_Witness ==
    /\ ReleaseChosen
    /\ fin.preferOriginal
    /\ Len(fin.releases) = 3
    /\ fin.releases[1].Date = d2010
    /\ fin.releases[2].Date = d1993
    /\ fin.releases[3].Date = d2000
    /\ fout[1] = 2

\* CalculateConfidence has returned.
ConfidenceComputed == fin.fn = "CalculateConfidence" /\ fout # <<>>

HasLabel == fin.metadata.Label # ""

HasDate == fin.metadata.ReleaseDate # <<>> \/ fin.metadata.Year > 0

HasCatalog == fin.metadata.CatalogNumber # ""

\* The sum as the specification words it, in tenths.
ClaimedTenths ==
    2 + (IF fin.exactMatch THEN 4 ELSE 2) + (IF HasLabel THEN 2 ELSE 0)
      + (IF HasDate THEN 1 ELSE 0) + (IF HasCatalog THEN 1 ELSE 0)

\* The float64 nearest to n tenths, n from 4 to 10.
Tenths64(n) ==
    CASE n = 4 -> f0_4
      [] n = 5 -> Float64(0 - 1, <<"0", "0", "0", "0", "0", "0", "0", "0", "0", "0", "0",
                                   "0", "0">>)
      [] n = 6 -> Float64(0 - 1, <<"3", "3", "3", "3", "3", "3", "3", "3", "3", "3", "3",
                                   "3", "3">>)
      [] n = 7 -> Float64(0 - 1, <<"6", "6", "6", "6", "6", "6", "6", "6", "6", "6", "6",
                                   "6", "6">>)
      [] n = 8 -> Float64(0 - 1, Nines \o <<"A">>)
      [] n = 9 -> Float64(0 - 1, <<"C", "C", "C", "C", "C", "C", "C", "C", "C", "C", "C",
                                   "C", "D">>)
      [] n = 10 -> f1_0

\* The next float64 above x, x not at the top of its binade.
NextUp(x) == [exp |-> x.exp, sig |-> Tail(addBits(x.sig, Zeros(SigBits - 1) \o <<1>>))]

\* The sum as the specification words it, in float64: the terms added from
\* left to right, an absent bonus adding nothing.
ClaimedSum ==
    LET t1 == addFloat64(f0_2, IF fin.exactMatch THEN f0_4 ELSE f0_2)
        t2 == addFloat64(t1, IF HasLabel THEN f0_2 ELSE Zero64)
        t3 == addFloat64(t2, IF HasDate THEN f0_1 ELSE Zero64)
    IN  addFloat64(t3, IF HasCatalog THEN f0_1 ELSE Zero64)

\* C15: CalculateConfidence equals 0.2 + (0.4 if exactMatch else 0.2) + (0.2 if
\* the label is non-empty) + (0.1 if the release date is non-empty or the year
\* is positive, once) + (0.1 if the catalog number is non-empty), capped at
\* 1.0: it is that float64 sum, which is the decimal value or the float64
\* next above it; it is exactly 1.0 for an exact match with label, date and
\* catalog number and exactly 0.4 for a non-exact match with nothing else.
C15_ConfidenceFormula ==
    ConfidenceComputed =>
        /\ fout[1] = IF gtFloat64(ClaimedSum, f1_0) THEN f1_0 ELSE ClaimedSum
        /\ ClaimedTenths \in 4..10
        /\ fout[1] \in {Tenths64(ClaimedTenths), NextUp(Tenths64(ClaimedTenths))}
        /\ (fin.exactMatch /\ HasLabel /\ HasDate /\ HasCatalog) => fout[1] = f1_0
        /\ (~fin.exactMatch /\ ~HasLabel /\ ~HasDate /\ ~HasCatalog) => fout[1] = f0_4

\* An exact match with label, release date and catalog number has scored 1.0.
C15_Witness ==
    /\ ConfidenceComputed
    /\ fin.exactMatch /\ HasLabel /\ HasCatalog
    /\ fin.metadata.ReleaseDate # <<>>
    /\ fin.metadata.Year = 0
    /\ fout[1] = f1_0

\* C16: CalculateConfidence is never below 0.4 and never above 1.0, and the sum
\* before the cap never exceeds 1.0, so that the cap never changes a value.
C16_ConfidenceBounded ==
    ConfidenceComputed =>
        /\ ~gtFloat64(f0_4, fout[1])
        /\ ~gtFloat64(fout[1], f1_0)
        /\ ~gtFloat64(confidenceSum(fin.metadata, fin.exactMatch), f1_0)
        /\ fout[1] = confidenceSum(fin.metadata, fin.exactMatch)

\* Every bonus is earned, the date bonus by the date and by the year at once,
\* and the sum before the cap is exactly 1.0.
C16_Witness ==
    /\ ConfidenceComputed
    /\ fin.exactMatch /\ HasLabel /\ HasCatalog
    /\ fin.metadata.ReleaseDate # <<>>
    /\ fin.metadata.Year > 0
    /\ confidenceSum(fin.metadata, fin.exactMatch) = f1_0
    /\ fout[1] = f1_0

\* convertToTrackMetadata has returned.
Converted == fin.fn = "convertToTrackMetadata" /\ fout # <<>>

\* The year as the specification words it: the integer the first four
\* characters of the date spell, four digits or a sign and three digits, and
\* 0 when the date is shorter or they spell none.
ClaimedYear(date) ==
    LET v(i) == DigitVal(date[i])
    IN  IF Len(date) < 4 THEN 0
        ELSE IF \A i \in 1..4 : IsDigit(date[i])
        THEN 1000 * v(1) + 100 * v(2) + 10 * v(3) + v(4)
        ELSE IF date[1] \in {"+", "-"} /\ \A i \in 2..4 : IsDigit(date[i])
        THEN (IF date[1] = "-" THEN 0 - 1 ELSE 1) * (100 * v(2) + 10 * v(3) + v(4))
        ELSE 0

\* C17: the record convertToTrackMetadata returns has the requested artist
\* and title, the release's title as album and its date as release date, the
\* year parsed from the first four characters of the date (0 when there are
\* fewer or they do not parse), label and catalog number of the first
\* label-info entry only (empty when there is none), the recording's id as
\* provider id, "MusicBrainz" as provider name, and the confidence
\* CalculateConfidence gives it with exactMatch true only when the title and
\* some credited artist both match, ignoring case.
C17_MetadataMapping ==
    Converted =>
        LET m == fout[1]
            rel == fin.release
            exact == /\ EqualFold(fin.recording.Title, fin.originalTitle)
                     /\ \E i \in 1..Len(fin.recording.ArtistCredit) :
                           EqualFold(fin.recording.ArtistCredit[i], fin.originalArtist)
        IN  /\ m.Artist = fin.originalArtist
            /\ m.Title = fin.originalTitle
            /\ m.Album = rel.Title
            /\ m.ReleaseDate = rel.Date
            /\ m.Year = ClaimedYear(rel.Date)
            /\ m.Label = IF rel.LabelInfo = <<>> THEN "" ELSE rel.LabelInfo[1].Label
            /\ m.CatalogNumber = IF rel.LabelInfo = <<>> THEN ""
                                 ELSE rel.LabelInfo[1].CatalogNumber
            /\ m.ProviderID = fin.recording.ID
            /\ m.ProviderName = "MusicBrainz"
            /\ m.Confidence = CalculateConfidence(m, exact)

\* A recording matching in title only, a release dated 1993-04-01 with two
\* label-info entries: no exact match, year 1993, the first entry's label.
C17_Witness ==
    /\ Converted
    /\ fin.recording.Title = sMUSIC
    /\ fin.recording.ArtistCredit = <<sGoldie>>
    /\ fin.release.Date = d1993
    /\ Len(fin.release.LabelInfo) = 2
    /\ fout[1].Year = 1993
    /\ fout[1].Label = "Good Looking"
    /\ fout[1].Confidence = Tenths64(8)

\* parseFilenameWithEdgeCase has returned.
Parsed == fin.fn = "parseFilenameWithEdgeCase" /\ fout # <<>>

\* The file name with its extension removed.
Stem == LET filename == Base(fin.filePath) IN TrimSuffix(filename, Ext(filename))

\* t is s without its leading and trailing blanks.
IsTrimOf(t, s) ==
    /\ t = <<>> \/ (t[1] # " " /\ t[Len(t)] # " ")
    /\ \E i \in 0..(Len(s) - Len(t)) :
          /\ SubSeq(s, i + 1, i + Len(t)) = t
          /\ \A j \in (1..i) \cup ((i + Len(t) + 1)..Len(s)) : s[j] = " "

\* The positions of the hyphens of s, and the segment of s between hyphen
\* k - 1 and hyphen k (the start and the end of s are hyphens 0 and n + 1).
Hyphens(s) == {i \in 1..Len(s) : s[i] = "-"}

HyphenAt(s, k) ==
    IF k = 0 THEN 0
    ELSE IF k > Cardinality(Hyphens(s)) THEN Len(s) + 1
    ELSE CHOOSE i \in Hyphens(s) : Cardinality({j \in Hyphens(s) : j <= i}) = k

Segment(s, k) == SubSeq(s, HyphenAt(s, k - 1) + 1, HyphenAt(s, k) - 1)

\* C19: for every file name (extension removed) of the form "<A> - <T>" with
\* no hyphen in A or T the decomposer returns A trimmed as artist, T trimmed as
\* title and no edge-case tag, whatever characters A consists of, digits only
\* or an uppercase letter and digits included.
C19_ArtistTitleForm ==
    (/\ Parsed
     /\ Cardinality(Hyphens(Stem)) = 1
     /\ \E i \in 2..(Len(Stem) - 1) : SubSeq(Stem, i - 1, i + 1) = <<" ", "-", " ">>)
        => /\ IsTrimOf(fout[1].artist, Segment(Stem, 1))
           /\ IsTrimOf(fout[1].title, Segment(Stem, 2))
           /\ fout[1].edgeCase = ""

\* The positions where a word of s begins, and the word that begins at i.
WordStarts(s) == {i \in 1..Len(s) : s[i] # " " /\ (i = 1 \/ s[i - 1] = " ")}

WordAt(s, i) ==
    SubSeq(s, i, CHOOSE j \in i..Len(s) :
                     /\ \A k \in i..j : s[k] # " "
                     /\ j = Len(s) \/ s[j + 1] = " ")

\* C20: with n the number of hyphens of the name after prefix stripping, the
\* decomposer returns: for n = 0 the two words of a name of exactly two words
\* and two empty strings otherwise, tag no_hyphens; for n = 1 and n = 2 the
\* first and the last segment, trimmed, no tag; for n = 3 the first and the
\* last segment, tag three_hyphens; for n = 4 the first two segments joined
\* by "/" and the last segment, no tag; for n >= 5 the first and the last
\* segment, tag many_hyphens.  The tag depends on n alone.
C20_HyphenDispatch ==
    Parsed =>
        LET name == cleanedName(fin.filePath)
            n == Cardinality(Hyphens(name))
            r == fout[1]
            firstAndLast == /\ IsTrimOf(r.artist, Segment(name, 1))
                            /\ IsTrimOf(r.title, Segment(name, n + 1))
        IN  /\ n = 0 =>
                  /\ r.edgeCase = "no_hyphens"
                  /\ IF Cardinality(WordStarts(name)) = 2
                     THEN \E i, j \in WordStarts(name) :
                              /\ i < j
                              /\ r.artist = WordAt(name, i)
                              /\ r.title = WordAt(name, j)
                     ELSE r.artist = <<>> /\ r.title = <<>>
            /\ n \in {1, 2} => firstAndLast /\ r.edgeCase = ""
            /\ n = 3 => firstAndLast /\ r.edgeCase = "three_hyphens"
            /\ n = 4 =>
                  /\ \E i \in 1..Len(r.artist) :
                        /\ r.artist[i] = "/"
                        /\ IsTrimOf(SubSeq(r.artist, 1, i - 1), Segment(name, 1))
                        /\ IsTrimOf(Drop(r.artist, i), Segment(name, 2))
                  /\ IsTrimOf(r.title, Segment(name, 5))
                  /\ r.edgeCase = ""
            /\ n >= 5 => firstAndLast /\ r.edgeCase = "many_hyphens"

\* A name of four hyphens has been taken apart: "LTJ Bukem/01" and the fifth
\* segment.
C20_Witness ==
    /\ Parsed
    /\ Cardinality(Hyphens(cleanedName(fin.filePath))) = 4
    /\ fout[1].artist = sBukem \o <<"/">> \o s01
    /\ fout[1].title = sBukem
    /\ fout[1].edgeCase = ""

\* cleanTrackPrefix has returned.
Cleaned == fin.fn = "cleanTrackPrefix" /\ fout # <<>>

\* The four patterns of cleanTrackPrefix in the order they are tried, as
\* arguments of prefixMatch.
PrefixPatterns ==
    << <<FALSE, TRUE, FALSE>>, <<FALSE, FALSE, TRUE>>,
       <<TRUE, FALSE, FALSE>>, <<TRUE, FALSE, TRUE>> >>

PatternMatch(name, k) ==
    prefixMatch(name, PrefixPatterns[k][1], PrefixPatterns[k][2],
                PrefixPatterns[k][3])

\* C21: cleanTrackPrefix removes nothing, or exactly one prefix that matches
\* one of the four patterns at the start of the name; what follows that one
\* prefix is kept (up to the final trim), even when it again looks like a
\* track prefix.
C21_AtMostOnePrefix ==
    Cleaned =>
        \/ fout[1] = TrimSpace(fin.name)
        \/ \E k \in 1..4 :
              /\ PatternMatch(fin.name, k) > 0
              /\ fout[1] = TrimSpace(Drop(fin.name, PatternMatch(fin.name, k)))

\* C22: the decomposer returns a triple (artist, title, tag) for every input,
\* and whenever the returned artist or the returned title is empty the tag is
\* not empty.
C22_EmptyFieldIsTagged ==
    Parsed =>
        /\ fout[1].edgeCase \in EdgeCaseTags
        /\ (fout[1].artist = <<>> \/ fout[1].title = <<>>) => fout[1].edgeCase # ""

\* C29: for a name with four hyphens the returned artist is never empty: it
\* always contains "/", even when both artist segments are blank, so the file
\* passes the caller's test of a non-empty artist and title whenever the last
\* segment is not blank.
C29_FourHyphenArtist ==
    (Parsed /\ Cardinality(Hyphens(cleanedName(fin.filePath))) = 4) =>
        /\ fout[1].artist # <<>>
        /\ \E i \in 1..Len(fout[1].artist) : fout[1].artist[i] = "/"
        /\ fout[1].edgeCase = ""
        /\ (\E i \in 1..Len(Segment(cleanedName(fin.filePath), 5)) :
                Segment(cleanedName(fin.filePath), 5)[i] # " ")
              => hasBasicInfo(fout[1].artist, fout[1].title)

\* Four hyphens, both artist segments blank, and a title.
C29_Witness ==
    /\ Parsed
    /\ Cardinality(Hyphens(cleanedName(fin.filePath))) = 4
    /\ fout[1].artist = <<"/">>
    /\ fout[1].title = sBukem
    /\ hasBasicInfo(fout[1].artist, fout[1].title)

\* ------------------------------------------------ batch command: claims

\* The files the loop has processed so far, by position.
Done == 1..processed

Recorded(path) ==
    \E t \in DOMAIN edgeCases : \E k \in 1..Len(edgeCases[t]) : edgeCases[t][k] = path

\* C30: every processed file is given exactly one of the five statuses, and
\* each counter holds the number of files with its status, so the five
\* counters add up to the number of files processed; enriched and
\* enrichment_failed are given only when an enricher is configured and the
\* file has a non-empty artist, a non-empty title and no label; a file that
\* could not be opened has status error and is recorded under no edge-case
\* tag.
C30_BatchAccounting ==
    /\ Len(returned) = processed
    /\ \A i \in Done : returned[i].status \in Statuses
    /\ \A s \in Statuses :
          counts[s] = Cardinality({i \in Done : returned[i].status = s})
    /\ counts["needs_enrichment"] + counts["has_label"] + counts["error"]
          + counts["enriched"] + counts["enrichment_failed"] = processed
    /\ \A i \in Done :
          returned[i].status \in {"enriched", "enrichment_failed"}
              => /\ enrichData
                 /\ files[i].opens
                 /\ fileInfo(files[i]).artist # <<>>
                 /\ fileInfo(files[i]).title # <<>>
                 /\ ~fileInfo(files[i]).hasLabel
    /\ \A i \in Done :
          ~files[i].opens
              => /\ returned[i] = Returns("error", "")
                 /\ ~Recorded(files[i].path)

\* Two files processed: one that could not be opened, whose name alone would
\* carry a tag, and one that was enriched and recorded under its tag.
C30_Witness ==
    /\ processed = 2
    /\ \E i \in Done :
          ~files[i].opens /\ parseFilenameWithEdgeCase(files[i].path).edgeCase # ""
    /\ \E i \in Done : returned[i].status = "enriched" /\ Recorded(files[i].path)

\* ---------------------------------------------- MusicBrainz: more claims

\* C11: under sequential use any two consecutive successful returns of
\* waitForRateLimit, the moments lastRequest is set, are at least rateLimit
\* (one second) apart, within one lookup and from one lookup to the next.
C11_GrantsSpaced ==
    prevRequest # ZeroTime => lastRequest - prevRequest >= rateLimit

\* The second wait of a lookup has been sat out to the end and granted.
C11_Witness ==
    /\ mpc = "doDetail"
    /\ prevRequest # ZeroTime
    /\ lastRequest = prevRequest + rateLimit
    /\ now = waitUntil

\* One of the two remote calls of the lookup failed in transport (client.Do
\* returned an error with the context live) or came back with a status other
\* than 200.
FailedInTransportOrStatus ==
    /\ mpc = "done"
    /\ \E msg \in {"musicbrainz recording search failed",
                    "musicbrainz release lookup failed"} :
          mout.err \in { Wrap(msg, <<"musicbrainz API returned status 503">>),
                         Wrap(msg, Wrap("http request failed",
                                        <<"Get", "connection refused">>)) }

\* C18: a transport failure or a non-success HTTP status from the search or
\* the detail request makes LookupWithHints return an error that wraps
\* ErrAPIError, distinguishable from ErrNotFound and from cancellation.
C18_APIErrorKind ==
    FailedInTransportOrStatus =>
        /\ errorsIs(mout.err, ErrAPIError)
        /\ ~errorsIs(mout.err, ErrNotFound)
        /\ ~errorsIs(mout.err, Canceled)
        /\ ~errorsIs(mout.err, DeadlineExceeded)

\* bestRecording is not nil: a recording, not the 0 that stands for none.
Chosen(r) == ToString(r) # ToString(0)

\* The kinds of the requests the call has sent, in order.
Kinds == [i \in 1..Len(requests) |-> requests[i].kind]

\* Where the call stands and what it has sent agree.
PipelineState ==
    /\ Kinds \in {<<>>, <<"search">>, <<"search", "detail">>}
    /\ mpc \in {"idle", "wait1", "doSearch"} => Kinds = <<>>
    /\ mpc \in {"search", "wait2", "doDetail"} => Kinds = <<"search">>
    /\ mpc = "detail" => Kinds = <<"search", "detail">>
    /\ Len(requests) = 2 => Chosen(recording) /\ requests[1].at <= requests[2].at
    /\ (mpc = "done" /\ ~Chosen(recording)) => Len(requests) <= 1
    /\ (mpc = "done" /\ mout.err \in {Canceled, DeadlineExceeded}) => requests = <<>>
    /\ (mpc = "done" /\ mout.err # NoErr
           /\ mout.err[1] = "musicbrainz recording search failed") => Len(requests) <= 1

\* One step of the call: a request goes out only from the position a granted
\* wait leads to, that position is entered only by a wait of this call being
\* granted in that step, and a call that has returned sends nothing more.
PipelineStep ==
    /\ (requests' # requests /\ requests' # <<>>)
          => /\ Len(requests') = Len(requests) + 1
             /\ SubSeq(requests', 1, Len(requests)) = requests
             /\ requests'[Len(requests')].at = now
             /\ \/ /\ requests'[Len(requests')].kind = "search"
                   /\ mpc = "doSearch"
                   /\ requests = <<>>
                \/ /\ requests'[Len(requests')].kind = "detail"
                   /\ mpc = "doDetail"
                   /\ Len(requests) = 1
                   /\ Chosen(recording)
    /\ (mpc' = "doSearch" /\ mpc # "doSearch")
          => /\ mpc \in {"idle", "wait1"}
             /\ lastRequest' = now
             /\ now - lastRequest >= rateLimit
    /\ (mpc' = "doDetail" /\ mpc # "doDetail")
          => /\ mpc \in {"search", "wait2"}
             /\ lastRequest' = now
             /\ now - lastRequest >= rateLimit
             /\ Chosen(recording')
    /\ mpc = "done" => requests' \in {requests, <<>>}

\* C24: within one call the adapter keeps the order wait, search, wait,
\* detail: every request it sends is preceded by a wait of its own that was
\* granted; it sends at most one search and one detail request, the detail
\* request only after the search succeeded and a recording was chosen; after
\* a failed wait, a failed search or an empty candidate set it sends nothing;
\* and no request is sent twice.
C24_PipelineOrder == []PipelineState /\ [][PipelineStep]_vars

\* Both requests are out, each after a wait that was sat out.
C24_Witness ==
    /\ mpc = "detail"
    /\ Len(requests) = 2
    /\ requests[2].at = lastRequest
    /\ requests[1].at = prevRequest
    /\ lastRequest = prevRequest + rateLimit

\* C27: waitForRateLimit sets lastRequest only when it grants the wait; a
\* wait aborted by cancellation or timeout returns the context's error, which
\* the first wait's caller returns as it is and the second wait's caller
\* wraps, and leaves lastRequest as it was.
C27_AbortKeepsLastRequest ==
    [][ /\ lastRequest' # lastRequest
              => /\ lastRequest' = now
                 /\ mpc' \in {"doSearch", "doDetail"}
                 /\ mpc' # mpc
        /\ (mpc \in {"wait1", "wait2"} /\ mpc' = "done")
              => /\ ctx # "live"
                 /\ lastRequest' = lastRequest
                 /\ mout'.err = IF mpc = "wait1" THEN CtxErr(ctx)
                                 ELSE Wrap("musicbrainz release lookup failed", CtxErr(ctx))
                 /\ mout'.result = NilResult ]_vars

\* A first wait entered with a live context was aborted while the last
\* request was less than rateLimit ago.
C27_Witness ==
    /\ mpc = "done"
    /\ ctx0 = "live"
    /\ mout.err \in {Canceled, DeadlineExceeded}
    /\ requests = <<>>
    /\ now - lastRequest < rateLimit

\* ------------------------------- MusicBrainz: one provider, shared: claims

\* C25: one provider used by two goroutines without serialisation is not
\* rate limited.  Every granted wait is still at least rateLimit after the
\* lastRequest value its goroutine read, so two grants less than rateLimit
\* apart never come from a goroutine that read the other grant; but both
\* goroutines can read the same lastRequest, both waits are then granted,
\* and two requests go out less than one second apart (the witness).
C25_GrantAfterValueRead ==
    /\ \A t \in Threads :
          released[t] # <<>>
              => /\ released[t][1].granted >= released[t][1].seen + rateLimit
                 /\ released[t][1].at >= released[t][1].granted
    /\ \A t, u \in Threads :
          (/\ t # u
           /\ released[t] # <<>>
           /\ released[u] # <<>>
           /\ released[u][1].granted >= released[t][1].granted
           /\ released[u][1].granted - released[t][1].granted < rateLimit)
              => released[u][1].seen # released[t][1].granted

\* Both goroutines read the same lastRequest, both waits were granted, and
\* their two requests went out less than rateLimit apart.
C25_Witness ==
    \E t, u \in Threads :
        /\ t # u
        /\ released[t] # <<>>
        /\ released[u] # <<>>
        /\ released[t][1].seen = released[u][1].seen
        /\ released[u][1].at >= released[t][1].at
        /\ released[u][1].at - released[t][1].at < rateLimit

=============================================================================
